---------------------------- MODULE Spec2Model ----------------------------
(***************************************************************************)
(* The evidence pipeline of RectAIfy: the multi-level cache (LRU tier,     *)
(* Postgres tier, singleflight coalescing) of internal/cache and the       *)
(* search executor of internal/search/executor.go that runs query tasks    *)
(* against it.  Time is counted in whole seconds.                          *)
(***************************************************************************)
EXTENDS Integers, Sequences, FiniteSets, TLC

\* ------------------------------------------------------------------ bounds
MaxTime == 2        \* the clock runs 0..MaxTime
MaxCalls == 2       \* Get / Set calls the direct callers make in all
NumQueries == 4     \* queries handed to Executor.Run
MaxMerged == 4      \* items in a merged evidence list handed to deduplication
MaxOneLiner == 3    \* words in an idea's one-liner
MaxLabels == 3      \* labels in a URL's host
MaxParams == 2      \* parameters in a URL's query
MaxItems == 3       \* items in an evidence list handed to the normalizer
MaxRaw == 2         \* items in a raw evidence list handed to Normalize
MaxNormalize == 2   \* calls of Normalize on one input
MaxSweeps == 2      \* sweeps of the cleanup worker

Keys == {"k1", "k2"}
\* Cache.ttl (config CACHE_TTL), in seconds: shorter than the clock's range,
\* so that entries do expire
Ttl == MaxTime - 1
\* capacity of the memory tier (config CACHE_LRU_SIZE): smaller than the key
\* space, so that entries are evicted
LruSize == Cardinality(Keys) - 1
\* goroutines calling Cache.Get / Cache.Set directly
CallerIds == {1, 2}
\* the goroutines of processBatch, one per query
TaskIds == 1..NumQueries
Procs == CallerIds \cup TaskIds

\* --------------------------------------------------------------- payloads
\* json.Marshal of an evidence slice: a nil slice encodes as null.
Marshal(ev) == IF ev = <<>> THEN <<"null">> ELSE <<"[">> \o ev \o <<"]">>
\* json.Unmarshal into a nil []types.Evidence.
Unmarshal(d) == IF d = <<"null">> THEN <<>> ELSE SubSeq(d, 2, Len(d) - 1)

NilData == <<>>
\* what direct callers store under each key
Payloads(k) == IF k = "k1" THEN {Marshal(<<"e1">>), Marshal(<<"e2">>)} ELSE {Marshal(<<>>)}

\* CacheEntry{Data, CreatedAt, TTL}
CacheEntry(data, createdAt, ttl) == [data |-> data, createdAt |-> createdAt, ttl |-> ttl]
NilEntry == CacheEntry(NilData, 0, 0)
\* a row of web_cache, or no row
NoRow == [present |-> FALSE, entry |-> NilEntry]
Row(e) == [present |-> TRUE, entry |-> e]

\* hashKey: sha256 of the key, injective for the keys of the model
hashKey(k) == <<"sha256", k>>

VARIABLES
  now,        \* wall clock
  lru,        \* memory tier: sequence of [hash, entry], most recently used first
  db,         \* persistent tier: hash -> row
  hasDb,      \* c.db != nil
  dbDown,     \* the persistent store is unreachable: every operation on it fails
  sf,         \* singleflight group: hash -> the in-flight call, if any
  pendingDel, \* hashes with a spawned `go c.deleteDB` that has not run yet
  warm,       \* the warm-up goroutine of NewCache
  pc,         \* where each goroutine stands
  key,        \* the cache key of its current call
  val,        \* Set's local: the entry it builds
  row,        \* get's local: the row read from the database
  res,        \* the outcome of its current Get / Set
  expect,     \* per goroutine: its own last Set, while nothing has come between
  ncalls,     \* Get / Set calls made by direct callers so far
  leader,     \* whether the current Get call ran the lookup chain itself
  queries,    \* Executor.Run's argument: task -> [query, priority]
  runPc,      \* where Executor.Run stands ("off": no Run in this process)
  tier,       \* the priority of the batch being processed
  cancelled,  \* the Run's context is done (deadline or cancellation)
  sem,        \* processBatch's semaphore: slots taken
  wg,         \* processBatch's wait group counter
  batchEv,    \* processBatch's allEvidence
  allEv,      \* Run's allEvidence
  result,     \* what Run returned
  got,        \* per task: what its executeQuery returned
  calls,      \* per task in flight: how its lookup and its provider call went
  fetched,    \* the query texts the provider has answered so far
  call,       \* a call of a pure function: its name, its argument, its return
  doneCtx,    \* the direct callers whose own context is done
  panicked,   \* the process has died of a nil pointer dereference
  analyzer,   \* Coordinator.AnalyzeAll: where each analyzer's goroutine is
  coord,      \* Coordinator.AnalyzeAll: its position, analysisErrors, the results
              \* stored, the errgroup's context, the verdict, what it returned
  orch        \* Orchestrator.AnalyzeIdea from step 5: its position, its deadline,
              \* the analysis it holds, what it saved and returned

cacheVars == <<now, lru, db, hasDb, dbDown, sf, pendingDel, warm>>
procVars == <<pc, key, val, row, res>>
histVars == <<expect, leader, ncalls>>
runVars == <<queries, runPc, tier, cancelled, sem, wg, batchEv, allEv, result>>
taskVars == <<got, calls, fetched>>
execVars == <<runVars, taskVars>>
\* what the cache and the executor leave alone
analysisVars == <<analyzer, coord, orch>>
otherVars == <<doneCtx, panicked, analysisVars>>
restVars == <<call, otherVars>>
vars == <<cacheVars, procVars, histVars, execVars, call, otherVars>>

Hashes == {hashKey(k) : k \in Keys}

\* ---------------------------------------------------------------- results
\* what the singleflight call / Cache.Get hands back
NoRes == [found |-> FALSE, err |-> FALSE, entry |-> NilEntry]
Hit(e) == [found |-> TRUE, err |-> FALSE, entry |-> e]
Miss == NoRes
Fail == [found |-> FALSE, err |-> TRUE, entry |-> NilEntry]

\* ------------------------------------------------------------ memory tier
LruIndex(l, h) ==
  IF \E i \in 1..Len(l) : l[i].hash = h
    THEN CHOOSE i \in 1..Len(l) : l[i].hash = h
    ELSE 0
LruContains(l, h) == LruIndex(l, h) # 0
LruPeek(l, h) == l[LruIndex(l, h)].entry
LruWithout(l, h) == SelectSeq(l, LAMBDA x : x.hash # h)
\* lru.Get: a hit moves the entry to the front
LruTouch(l, h) ==
  IF LruContains(l, h) THEN <<l[LruIndex(l, h)]>> \o LruWithout(l, h) ELSE l
\* lru.Add: insert or update at the front, evict the oldest beyond the capacity
LruAdd(l, h, e) ==
  LET m == <<[hash |-> h, entry |-> e]>> \o LruWithout(l, h)
  IN  IF Len(m) > LruSize THEN SubSeq(m, 1, LruSize) ELSE m
\* lru.Remove
LruRemove(l, h) == LruWithout(l, h)

\* a slip in the comparison: an entry one second past its ttl still counts as live
isExpiredLate(e, t) == t - e.createdAt > e.ttl + 1

\* isExpired: time.Since(entry.CreatedAt) > entry.TTL
isExpired(e, t) == t - e.createdAt > e.ttl

\* ------------------------------------------------------------------- Init
\* no pure-function call is under way
NoCall == [fn |-> "none", arg |-> <<>>, ret |-> <<>>, returned |-> FALSE]

\* the six analyzers that AnalyzeAll starts, in the order of its g.Go calls
Analyzers == <<"market", "problem", "barriers", "execution", "risks", "graveyard">>
AnalyzerNames == {Analyzers[i] : i \in 1..Len(Analyzers)}

\* no analysis has been asked for
AnalysisIdle ==
  /\ analyzer = [a \in AnalyzerNames |-> "idle"]
  /\ coord = [pc |-> "off", started |-> 0, analysisErrors |-> {}, results |-> {},
              groupCtxDone |-> FALSE, verdict |-> "none", partial |-> FALSE, err |-> FALSE]
  /\ orch = [pc |-> "off", deadline |-> FALSE, marked |-> FALSE, partial |-> FALSE,
             saved |-> FALSE, err |-> FALSE]

InitRows ==
  { [h \in Hashes |-> NoRow],
    [h \in Hashes |-> IF h = hashKey("k1")
                        THEN Row(CacheEntry(Marshal(<<"e1">>), 0, Ttl))
                        ELSE NoRow] }

InitCache ==
  /\ now = 0
  /\ lru = <<>>
  /\ hasDb \in BOOLEAN
  /\ dbDown = FALSE
  /\ db \in (IF hasDb THEN InitRows ELSE {[h \in Hashes |-> NoRow]})
  /\ sf = [h \in Hashes |-> 0]
  /\ pendingDel = {}
  /\ warm = [pc |-> "query", rows |-> <<>>]
  /\ call = NoCall
  /\ pc = [p \in Procs |-> "idle"]
  /\ key = [p \in Procs |-> "k1"]
  /\ val = [p \in Procs |-> NilEntry]
  /\ row = [p \in Procs |-> NoRow]
  /\ res = [p \in Procs |-> NoRes]
  /\ expect = [p \in Procs |-> [known |-> FALSE, key |-> "k1", data |-> NilData, at |-> 0]]
  /\ leader = [p \in Procs |-> FALSE]
  /\ ncalls = 0

\* the context a goroutine's cache calls run under: a task runs under the Run's
\* context (executor.go:33), a direct caller under its own
CtxDone(p) == (runPc # "off" /\ cancelled) \/ p \in doneCtx

\* a database operation fails when its context is done or the store is
\* unreachable, and may fail anyway
DbOutcomes(p) == IF CtxDone(p) \/ dbDown THEN {FALSE} ELSE BOOLEAN

GetStates == {"sfDo", "sfWait", "getLRU", "getRm", "getDB", "getDBFin", "sfFin", "getRet"}
InGet(p) == pc[p] \in GetStates

NoExpect == [known |-> FALSE, key |-> "k1", data |-> NilData, at |-> 0]
SetStates == {"setDB", "setRet"}

\* ---- bookkeeping (history, not program state): the Set a goroutine has
\* completed without error, kept until another Set of the key starts, the entry's ttl
\* elapses, or the goroutine moves on to something other than a Get of the key
ExpectDrop(ex, k) ==
  [q \in Procs |-> IF ex[q].key = k THEN NoExpect ELSE ex[q]]
ExpectSet(ex, p, k, v, t) ==
  [ex EXCEPT ![p] =
     IF \/ \E q \in Procs \ {p} : pc[q] \in SetStates /\ key[q] = k
        \/ now - t > Ttl
        \/ res[p].err
       THEN NoExpect
       ELSE [known |-> TRUE, key |-> k, data |-> v, at |-> t]]

\* ----------------------------------------------------------- Cache.Get
\* Get, lines 52-53: a direct caller calls Get(ctx, k)
GetCall(p, k) ==
  /\ runPc = "off"
  /\ p \in CallerIds
  /\ pc[p] = "idle"
  /\ ncalls < MaxCalls
  /\ ncalls' = ncalls + 1
  /\ pc' = [pc EXCEPT ![p] = "sfDo"]
  /\ key' = [key EXCEPT ![p] = k]
  /\ expect' = [expect EXCEPT ![p] = IF expect[p].key = k THEN expect[p] ELSE NoExpect]
  /\ UNCHANGED <<restVars, cacheVars, val, row, res, leader, execVars>>

\* no coalescing: every caller runs its own lookup
SfNeverInFlight(h) == FALSE

\* singleflight: is a call for this hash in flight?
SfInFlight(h) == sf[h] # 0

\* c.sf.Do, line 56: join the call in flight, or start one
SfDo(p) ==
  /\ pc[p] = "sfDo"
  /\ LET h == hashKey(key[p])
     IN  IF SfInFlight(h)
           THEN /\ pc' = [pc EXCEPT ![p] = "sfWait"]
                /\ UNCHANGED <<sf, leader>>
           ELSE /\ sf' = [sf EXCEPT ![h] = p]
                /\ leader' = [leader EXCEPT ![p] = TRUE]
                /\ pc' = [pc EXCEPT ![p] = "getLRU"]
  /\ UNCHANGED <<now, lru, db, hasDb, dbDown, restVars, pendingDel, warm, key, val, row, res,
                 expect, ncalls, execVars>>

\* after the memory tier answered nothing: the database, if there is one
AfterLru(p) ==
  IF hasDb
    THEN /\ pc' = [pc EXCEPT ![p] = "getDB"]
         /\ UNCHANGED res
    ELSE /\ pc' = [pc EXCEPT ![p] = "sfFin"]
         /\ res' = [res EXCEPT ![p] = Miss]

\* get, lines 98-101: the memory tier
GetLRU(p) ==
  /\ pc[p] = "getLRU"
  /\ LET h == hashKey(key[p])
     IN  IF LruContains(lru, h)
           THEN /\ lru' = LruTouch(lru, h)
                /\ IF ~isExpired(LruPeek(lru, h), now)
                     THEN /\ res' = [res EXCEPT ![p] = Hit(LruPeek(lru, h))]
                          /\ pc' = [pc EXCEPT ![p] = "sfFin"]
                     ELSE /\ pc' = [pc EXCEPT ![p] = "getRm"]
                          /\ UNCHANGED res
           ELSE /\ UNCHANGED lru
                /\ AfterLru(p)
  /\ UNCHANGED <<now, db, hasDb, dbDown, restVars, sf, pendingDel, warm, key, val, row,
                 histVars, execVars>>

\* get, line 103: remove the entry found expired
GetRm(p) ==
  /\ pc[p] = "getRm"
  /\ lru' = LruRemove(lru, hashKey(key[p]))
  /\ AfterLru(p)
  /\ UNCHANGED <<now, db, hasDb, dbDown, restVars, sf, pendingDel, warm, key, val, row,
                 histVars, execVars>>

\* get, lines 111-116, and getDB: read the row
GetDBRead(p) ==
  /\ pc[p] = "getDB"
  /\ \E ok \in DbOutcomes(p) :
       IF ok
         THEN /\ row' = [row EXCEPT ![p] = db[hashKey(key[p])]]
              /\ pc' = [pc EXCEPT ![p] = "getDBFin"]
              /\ UNCHANGED res
         ELSE /\ res' = [res EXCEPT ![p] = Fail]
              /\ pc' = [pc EXCEPT ![p] = "sfFin"]
              /\ UNCHANGED row
  /\ UNCHANGED <<restVars, cacheVars, key, val, histVars, execVars>>

\* get, lines 118-129: populate the memory tier, or clean up the expired row
GetDBFin(p) ==
  /\ pc[p] = "getDBFin"
  /\ LET h == hashKey(key[p])
         r == row[p]
     IN  IF r.present /\ ~isExpired(r.entry, now)
           THEN /\ lru' = LruAdd(lru, h, r.entry)
                /\ res' = [res EXCEPT ![p] = Hit(r.entry)]
                /\ UNCHANGED pendingDel
           ELSE /\ pendingDel' = IF r.present THEN pendingDel \cup {h} ELSE pendingDel
                /\ res' = [res EXCEPT ![p] = Miss]
                /\ UNCHANGED lru
  /\ row' = [row EXCEPT ![p] = NoRow]
  /\ pc' = [pc EXCEPT ![p] = "sfFin"]
  /\ UNCHANGED <<now, db, hasDb, dbDown, restVars, sf, warm, key, val, histVars, execVars>>

\* singleflight: the call returns; its result goes to every caller that joined
SfFinish(p) ==
  /\ pc[p] = "sfFin"
  /\ LET h == hashKey(key[p])
         joined == {q \in Procs : pc[q] = "sfWait" /\ key[q] = key[p]}
     IN  /\ sf' = [sf EXCEPT ![h] = IF sf[h] = p THEN 0 ELSE sf[h]]
         /\ pc' = [q \in Procs |-> IF q = p \/ q \in joined THEN "getRet" ELSE pc[q]]
         /\ res' = [q \in Procs |-> IF q \in joined THEN res[p] ELSE res[q]]
  /\ UNCHANGED <<now, lru, db, hasDb, dbDown, restVars, pendingDel, warm, key, val, row,
                 histVars, execVars>>

\* Get, lines 60-72: a direct caller's Get returns
GetReturn(p) ==
  /\ runPc = "off"
  /\ pc[p] = "getRet"
  /\ pc' = [pc EXCEPT ![p] = "idle"]
  /\ key' = [key EXCEPT ![p] = "k1"]
  /\ res' = [res EXCEPT ![p] = NoRes]
  /\ expect' = [expect EXCEPT ![p] = NoExpect]
  /\ leader' = [leader EXCEPT ![p] = FALSE]
  /\ UNCHANGED <<restVars, cacheVars, val, row, ncalls, execVars>>

\* ----------------------------------------------------------- Cache.Set
\* the memory tier is left out of Set
SetMemorySkipped(l, k, data) == l

\* Set, lines 77-86: the entry goes to the memory tier first
SetMemory(l, k, data) == LruAdd(l, hashKey(k), CacheEntry(data, now, Ttl))

\* Set, lines 76-92: a direct caller calls Set(ctx, k, v)
SetCall(p, k, v) ==
  /\ runPc = "off"
  /\ p \in CallerIds
  /\ pc[p] = "idle"
  /\ ncalls < MaxCalls
  /\ ncalls' = ncalls + 1
  /\ key' = [key EXCEPT ![p] = k]
  /\ val' = [val EXCEPT ![p] = CacheEntry(v, now, Ttl)]
  /\ lru' = SetMemory(lru, k, v)
  /\ pc' = [pc EXCEPT ![p] = IF hasDb THEN "setDB" ELSE "setRet"]
  /\ expect' = [ExpectDrop(expect, k) EXCEPT ![p] = NoExpect]
  /\ UNCHANGED <<now, db, hasDb, dbDown, restVars, sf, pendingDel, warm, row, res, leader, execVars>>

\* setDB, lines 160-172: the upsert of the row
Upsert(d, h, data) == [d EXCEPT ![h] = Row(CacheEntry(data, now, Ttl))]

\* Set, line 90: a direct caller's Set persists and hands setDB's error back
SetDB(p) ==
  /\ runPc = "off"
  /\ pc[p] = "setDB"
  /\ \E ok \in DbOutcomes(p) :
       /\ db' = IF ok THEN Upsert(db, hashKey(key[p]), val[p].data) ELSE db
       /\ res' = [res EXCEPT ![p] = IF ok THEN NoRes ELSE Fail]
  /\ pc' = [pc EXCEPT ![p] = "setRet"]
  /\ UNCHANGED <<now, lru, hasDb, dbDown, restVars, sf, pendingDel, warm, key, val, row,
                 histVars, execVars>>

\* a direct caller's Set has returned
SetReturn(p) ==
  /\ runPc = "off"
  /\ pc[p] = "setRet"
  /\ pc' = [pc EXCEPT ![p] = "idle"]
  /\ key' = [key EXCEPT ![p] = "k1"]
  /\ res' = [res EXCEPT ![p] = NoRes]
  /\ val' = [val EXCEPT ![p] = NilEntry]
  /\ expect' = ExpectSet(expect, p, key[p], val[p].data, val[p].createdAt)
  /\ UNCHANGED <<restVars, cacheVars, row, leader, ncalls, execVars>>

\* ------------------------------------------------- background goroutines
\* deleteDB, lines 175-178, spawned by get at line 126
DeleteDB(h) ==
  /\ h \in pendingDel
  /\ pendingDel' = pendingDel \ {h}
  /\ \E ok \in BOOLEAN : db' = IF ok THEN [db EXCEPT ![h] = NoRow] ELSE db
  /\ UNCHANGED <<now, lru, hasDb, dbDown, restVars, sf, warm, procVars, histVars, execVars>>

WarmupLimit == 1000

\* the warm-up query, lines 197-203: unexpired rows, newest first, at most 1000
WarmupRows ==
  LET live == {h \in Hashes : db[h].present
                 /\ db[h].entry.createdAt + db[h].entry.ttl > now}
      n == Cardinality(live)
      orders == {s \in [1..n -> live] :
                   /\ \A i, j \in 1..n : i # j => s[i] # s[j]
                   /\ \A i, j \in 1..n : i < j =>
                        db[s[i]].entry.createdAt >= db[s[j]].entry.createdAt}
  IN  {[i \in 1..(IF n > WarmupLimit THEN WarmupLimit ELSE n) |->
          [hash |-> s[i], entry |-> db[s[i]].entry]] : s \in orders}

\* warmupFromDB, lines 192-207
WarmupQuery ==
  /\ warm.pc = "query"
  /\ IF ~hasDb
       THEN warm' = [pc |-> "done", rows |-> <<>>]
       ELSE \E ok \in BOOLEAN :
              IF ok
                THEN \E rs \in WarmupRows : warm' = [pc |-> "rows", rows |-> rs]
                ELSE warm' = [pc |-> "done", rows |-> <<>>]
  /\ UNCHANGED <<now, lru, db, hasDb, dbDown, restVars, sf, pendingDel, procVars, histVars, execVars>>

\* warmupFromDB, lines 209-228: one row of the result
WarmupAdd ==
  /\ warm.pc = "rows"
  /\ IF warm.rows = <<>>
       THEN /\ warm' = [pc |-> "done", rows |-> <<>>]
            /\ UNCHANGED lru
       ELSE /\ warm' = [warm EXCEPT !.rows = Tail(warm.rows)]
            /\ lru' = IF ~isExpired(Head(warm.rows).entry, now)
                        THEN LruAdd(lru, Head(warm.rows).hash, Head(warm.rows).entry)
                        ELSE lru
  /\ UNCHANGED <<now, db, hasDb, dbDown, restVars, sf, pendingDel, procVars, histVars, execVars>>

\* time passes
Tick ==
  /\ now < MaxTime
  /\ now' = now + 1
  /\ expect' = [q \in Procs |->
                  IF expect[q].known /\ now + 1 - expect[q].at > Ttl
                    THEN NoExpect ELSE expect[q]]
  /\ UNCHANGED <<lru, db, hasDb, dbDown, restVars, sf, pendingDel, warm, procVars, leader, ncalls, execVars>>

InitNoRun ==
  /\ queries = [t \in TaskIds |-> [query |-> "k1", priority |-> 1]]
  /\ runPc = "off"
  /\ doneCtx = {}
  /\ panicked = FALSE
  /\ AnalysisIdle
  /\ tier = 1
  /\ cancelled = FALSE
  /\ sem = 0
  /\ wg = 0
  /\ batchEv = <<>>
  /\ allEv = <<>>
  /\ result = [ev |-> <<>>, err |-> FALSE]
  /\ got = [p \in Procs |-> <<>>]
  /\ calls = [p \in Procs |-> [lookupErr |-> FALSE, provider |-> "none"]]
  /\ fetched = {}

\* ---- the cache under direct callers, the warm-up and the clock
CacheInit == InitCache /\ InitNoRun

CacheNext ==
  \/ \E p \in CallerIds, k \in Keys : GetCall(p, k)
  \/ \E p \in CallerIds, k \in Keys : \E v \in Payloads(k) : SetCall(p, k, v)
  \/ \E p \in CallerIds : SfDo(p)
  \/ \E p \in CallerIds : GetLRU(p)
  \/ \E p \in CallerIds : GetRm(p)
  \/ \E p \in CallerIds : GetDBRead(p)
  \/ \E p \in CallerIds : GetDBFin(p)
  \/ \E p \in CallerIds : SfFinish(p)
  \/ \E p \in CallerIds : GetReturn(p)
  \/ \E p \in CallerIds : SetDB(p)
  \/ \E p \in CallerIds : SetReturn(p)
  \/ \E h \in Hashes : DeleteDB(h)
  \/ WarmupQuery
  \/ WarmupAdd
  \/ Tick

SpecCache == CacheInit /\ [][CacheNext]_vars

\* ======================================================== search executor
\* types.Evidence items, by id: the fields that deduplication reads, strings
\* as sequences of characters.  "e3" repeats the url and the title of "e1";
\* "e4" has another url and another title, with the separator moved
EvidenceIds == {"e1", "e2", "e3", "e4"}
URL(e) ==
  IF e = "e2" THEN <<"d">> ELSE IF e = "e4" THEN <<"a", "|", "b">> ELSE <<"a">>
Title(e) ==
  IF e = "e2" THEN <<"e">> ELSE IF e = "e4" THEN <<"c">> ELSE <<"b", "|", "c">>

\* what the search provider answers for a query text: "e3" repeats the url and
\* the title of "e1" with another snippet
Provider(q) == IF q = "k1" THEN <<"e1", "e2">> ELSE <<"e3">>

\* a failed provider call that still hands its results on
SearchResultLeaky(q, ok) == Provider(q)

\* Client.Search, lines 117-140: a failed performWebSearch is skipped, and the
\* evidence stays the nil slice
SearchResult(q, ok) == IF ok THEN Provider(q) ELSE <<>>

\* createCacheKey, lines 142-155, for the nil location Run is called with
createCacheKey(query) == query

\* the priority is taken as the tier, whatever it is
BucketUnclamped(priority) == priority

\* groupQueriesByPriority, lines 131-134: the bucket of a priority
Bucket(priority) == IF priority < 1 \/ priority > 3 THEN 3 ELSE priority

\* groupQueriesByPriority: bucket -> its tasks (a task's id is its position
\* in the query list)
groupQueriesByPriority(qs) ==
  [t \in 1..3 |-> {p \in TaskIds : Bucket(qs[p].priority) = t}]

\* the items of an evidence list
Items(ev) == {ev[i] : i \in 1..Len(ev)}

\* deduplicateEvidence, line 164: key := ev.URL + "|" + ev.Title
DedupKey(e) == URL(e) \o <<"|">> \o Title(e)

RECURSIVE DedupFrom(_, _)
DedupFrom(ev, seen) ==
  IF ev = <<>>
    THEN <<>>
    ELSE IF DedupKey(Head(ev)) \in seen
           THEN DedupFrom(Tail(ev), seen)
           ELSE <<Head(ev)>> \o DedupFrom(Tail(ev), seen \cup {DedupKey(Head(ev))})

\* deduplicateEvidence, lines 158-173: first seen wins
deduplicateEvidence(ev) == DedupFrom(ev, {})

\* query lists over all three tiers: two queries of priority 1 (with distinct
\* texts, or with the same text), one of priority 2 that repeats the first
\* text, the rest with a priority out of range (below or above)
TieredLists ==
  { [t \in TaskIds |-> [query |-> IF t % 2 = 1 THEN "k1" ELSE "k2",
                        priority |-> IF t <= 2 THEN 1 ELSE IF t = 3 THEN 2 ELSE 0]],
    [t \in TaskIds |-> [query |-> IF t <= 3 THEN "k1" ELSE "k2",
                        priority |-> IF t <= 2 THEN 1 ELSE IF t = 3 THEN 2 ELSE 7]] }

\* a query list with every query in tier 1, over two texts
OneTierList ==
  [t \in TaskIds |-> [query |-> IF t % 2 = 1 THEN "k1" ELSE "k2", priority |-> 1]]

NoCalls == [lookupErr |-> FALSE, provider |-> "none"]
NoResult == [ev |-> <<>>, err |-> FALSE]

\* a process whose cache is empty and whose warm-up has ended; Run not yet called
QuietInit ==
  /\ now = 0
  /\ lru = <<>>
  /\ hasDb \in BOOLEAN
  /\ dbDown \in (IF hasDb THEN BOOLEAN ELSE {FALSE})
  /\ db = [h \in Hashes |-> NoRow]
  /\ sf = [h \in Hashes |-> 0]
  /\ pendingDel = {}
  /\ warm = [pc |-> "done", rows |-> <<>>]
  /\ pc = [p \in Procs |-> "idle"]
  /\ key = [p \in Procs |-> "k1"]
  /\ val = [p \in Procs |-> NilEntry]
  /\ row = [p \in Procs |-> NoRow]
  /\ res = [p \in Procs |-> NoRes]
  /\ expect = [p \in Procs |-> NoExpect]
  /\ leader = [p \in Procs |-> FALSE]
  /\ ncalls = 0
  /\ queries = [t \in TaskIds |-> [query |-> "k1", priority |-> 1]]
  /\ runPc = "ready"
  /\ doneCtx = {}
  /\ panicked = FALSE
  /\ AnalysisIdle
  /\ tier = 1
  /\ cancelled = FALSE
  /\ sem = 0
  /\ wg = 0
  /\ batchEv = <<>>
  /\ allEv = <<>>
  /\ result = NoResult
  /\ got = [p \in Procs |-> <<>>]
  /\ calls = [p \in Procs |-> NoCalls]
  /\ fetched = {}

\* the same process with the executor about to run
ExecInit == QuietInit /\ call = NoCall

\* Run, lines 31-39
RunCall(qs) ==
  /\ runPc = "ready"
  /\ queries' = qs
  /\ runPc' = "loop"
  /\ tier' = 1
  /\ allEv' = <<>>
  /\ UNCHANGED <<restVars, cacheVars, procVars, histVars, cancelled, sem, wg, batchEv,
                 result, taskVars>>

\* Run, lines 43-44, and processBatch, lines 65-70: the next priority
RunLoop ==
  /\ runPc = "loop"
  /\ tier <= 3
  /\ IF groupQueriesByPriority(queries)[tier] # {}
       THEN /\ runPc' = "dispatch"
            /\ sem' = 0
            /\ wg' = 0
            /\ batchEv' = <<>>
            /\ UNCHANGED tier
       ELSE /\ tier' = tier + 1
            /\ UNCHANGED <<runPc, sem, wg, batchEv>>
  /\ UNCHANGED <<restVars, cacheVars, procVars, histVars, queries, cancelled, allEv,
                 result, taskVars>>

\* processBatch, lines 72-96: wg.Add(1) and the goroutine of the next query
Dispatch ==
  /\ runPc = "dispatch"
  /\ LET waiting == {p \in groupQueriesByPriority(queries)[tier] : pc[p] = "idle"}
     IN  IF waiting = {}
           THEN /\ runPc' = "wait"
                /\ UNCHANGED <<pc, wg>>
           ELSE LET p == CHOOSE x \in waiting : \A y \in waiting : x <= y
                IN  /\ wg' = wg + 1
                    /\ pc' = [pc EXCEPT ![p] = "sem"]
                    /\ UNCHANGED runPc
  /\ UNCHANGED <<restVars, cacheVars, key, val, row, res, histVars, queries, tier,
                 cancelled, sem, batchEv, allEv, result, taskVars>>

\* the batch is never waited for
BatchNotAwaited == TRUE

\* wg.Wait, line 98
BatchDone == wg = 0

\* what has been collected is dropped when the context is done
MergeUnlessCancelled(all, batch) == IF cancelled THEN all ELSE all \o batch

\* Run, line 52
Merge(all, batch) == all \o batch

\* processBatch, lines 98-99, and Run, lines 45-53: the batch has ended
WaitDone ==
  /\ runPc = "wait"
  /\ BatchDone
  /\ LET err == FALSE   \* processBatch returns allEvidence, nil
     IN  allEv' = IF err THEN allEv ELSE Merge(allEv, batchEv)
  /\ tier' = tier + 1
  /\ runPc' = "loop"
  /\ UNCHANGED <<restVars, cacheVars, procVars, histVars, queries, cancelled, sem, wg,
                 batchEv, result, taskVars>>

\* Run, lines 58-60
RunReturn ==
  /\ runPc = "loop"
  /\ tier > 3
  /\ result' = [ev |-> deduplicateEvidence(allEv), err |-> FALSE]
  /\ runPc' = "done"
  /\ UNCHANGED <<restVars, cacheVars, procVars, histVars, queries, tier, cancelled, sem,
                 wg, batchEv, allEv, taskVars>>

\* the deadline of line 33 fires, or the caller's context is cancelled
Cancel ==
  /\ runPc \in {"loop", "dispatch", "wait"}
  /\ ~cancelled
  /\ cancelled' = TRUE
  /\ UNCHANGED <<restVars, cacheVars, procVars, histVars, queries, runPc, tier, sem, wg,
                 batchEv, allEv, result, taskVars>>

SemCapacity == 3

\* every send on the semaphore goes through
SemAlwaysFree == TRUE

\* line 80: the send on sem can proceed
SemFree == sem < SemCapacity

\* processBatch, lines 79-81, and executeQuery, line 105
TaskAcquire(p) ==
  /\ pc[p] = "sem"
  /\ SemFree
  /\ sem' = sem + 1
  /\ pc' = [pc EXCEPT ![p] = "sfDo"]
  /\ key' = [key EXCEPT ![p] = createCacheKey(queries[p].query)]
  /\ UNCHANGED <<restVars, cacheVars, val, row, res, histVars, queries, runPc, tier,
                 cancelled, wg, batchEv, allEv, result, taskVars>>

\* the task gives up without the deferred wg.Done
TaskCancelExitNoDone(p) ==
  /\ pc[p] = "sem"
  /\ cancelled
  /\ pc' = [pc EXCEPT ![p] = "done"]
  /\ UNCHANGED <<restVars, cacheVars, key, val, row, res, histVars, queries, runPc, tier,
                 cancelled, sem, wg, batchEv, allEv, result, taskVars>>

\* processBatch, lines 82-83 and 76: the context is done, the task gives up
TaskCancelExit(p) ==
  /\ pc[p] = "sem"
  /\ cancelled
  /\ pc' = [pc EXCEPT ![p] = "done"]
  /\ wg' = wg - 1
  /\ UNCHANGED <<restVars, cacheVars, key, val, row, res, histVars, queries, runPc, tier,
                 cancelled, sem, batchEv, allEv, result, taskVars>>

\* GetEvidence, lines 260-272, and executeQuery, lines 108-110
TaskGetReturn(p) ==
  /\ runPc # "off"
  /\ pc[p] = "getRet"
  /\ IF ~res[p].err /\ res[p].found
       THEN /\ got' = [got EXCEPT ![p] = Unmarshal(res[p].entry.data)]
            /\ pc' = [pc EXCEPT ![p] = "fin"]
            /\ UNCHANGED calls
       ELSE /\ calls' = [calls EXCEPT ![p].lookupErr = res[p].err]
            /\ pc' = [pc EXCEPT ![p] = "limiter"]
            /\ UNCHANGED got
  /\ res' = [res EXCEPT ![p] = NoRes]
  /\ leader' = [leader EXCEPT ![p] = FALSE]
  /\ UNCHANGED <<restVars, cacheVars, key, val, row, expect, ncalls, runVars, fetched>>

\* Client.Search, lines 113-115, and executeQuery, lines 114-116
TaskLimiter(p) ==
  /\ pc[p] = "limiter"
  /\ \E ok \in (IF cancelled THEN {FALSE} ELSE BOOLEAN) :
       IF ok
         THEN /\ pc' = [pc EXCEPT ![p] = "search"]
              /\ UNCHANGED calls
         ELSE /\ pc' = [pc EXCEPT ![p] = "fin"]
              /\ calls' = [calls EXCEPT ![p].provider = "limited"]
  /\ UNCHANGED <<restVars, cacheVars, key, val, row, res, histVars, runVars, got, fetched>>

\* Client.Search, lines 119-140, executeQuery, lines 113-119, SetEvidence and
\* Set, lines 77-89: the provider's answer arrives and goes into the cache
TaskSearch(p) ==
  /\ pc[p] = "search"
  /\ \E ok \in (IF cancelled THEN {FALSE} ELSE BOOLEAN) :
       LET evidence == SearchResult(queries[p].query, ok)
       IN  /\ got' = [got EXCEPT ![p] = evidence]
           /\ calls' = [calls EXCEPT ![p].provider = IF ok THEN "ok" ELSE "failed"]
           /\ fetched' = IF ok THEN fetched \cup {queries[p].query} ELSE fetched
           /\ val' = [val EXCEPT ![p] = CacheEntry(Marshal(evidence), now, Ttl)]
           /\ lru' = SetMemory(lru, key[p], Marshal(evidence))
  /\ pc' = [pc EXCEPT ![p] = IF hasDb THEN "setDB" ELSE "fin"]
  /\ UNCHANGED <<now, db, hasDb, dbDown, restVars, sf, pendingDel, warm, key, row, res, histVars,
                 runVars>>

\* Set, line 90, and executeQuery, lines 119-123: the error is dropped
TaskSetDB(p) ==
  /\ runPc # "off"
  /\ pc[p] = "setDB"
  /\ \E ok \in DbOutcomes(p) :
       db' = IF ok THEN Upsert(db, hashKey(key[p]), val[p].data) ELSE db
  /\ pc' = [pc EXCEPT ![p] = "fin"]
  /\ UNCHANGED <<now, lru, hasDb, dbDown, restVars, sf, pendingDel, warm, key, val, row, res,
                 histVars, runVars, taskVars>>

\* processBatch, lines 86-94 and the deferred calls of lines 76 and 81
TaskFinish(p) ==
  /\ pc[p] = "fin"
  /\ batchEv' = IF calls[p].provider = "limited" THEN batchEv ELSE batchEv \o got[p]
  /\ sem' = sem - 1
  /\ wg' = wg - 1
  /\ pc' = [pc EXCEPT ![p] = "done"]
  /\ key' = [key EXCEPT ![p] = "k1"]
  /\ val' = [val EXCEPT ![p] = NilEntry]
  /\ got' = [got EXCEPT ![p] = <<>>]
  /\ calls' = [calls EXCEPT ![p] = NoCalls]
  /\ UNCHANGED <<restVars, cacheVars, row, res, histVars, queries, runPc, tier, cancelled,
                 allEv, result, fetched>>

\* ---- one Run over a cache that starts empty; the entries' ttl (24 h) is far
\* beyond the Run's deadline (60 s), so the clock stands still here
ExecNext ==
  \/ \E qs \in TieredLists : RunCall(qs)
  \/ RunLoop
  \/ Dispatch
  \/ WaitDone
  \/ RunReturn
  \/ Cancel
  \/ \E p \in TaskIds : TaskAcquire(p)
  \/ \E p \in TaskIds : TaskCancelExit(p)
  \/ \E p \in TaskIds : SfDo(p)
  \/ \E p \in TaskIds : GetLRU(p)
  \/ \E p \in TaskIds : GetDBRead(p)
  \/ \E p \in TaskIds : GetDBFin(p)
  \/ \E p \in TaskIds : SfFinish(p)
  \/ \E p \in TaskIds : TaskGetReturn(p)
  \/ \E p \in TaskIds : TaskLimiter(p)
  \/ \E p \in TaskIds : TaskSearch(p)
  \/ \E p \in TaskIds : TaskSetDB(p)
  \/ \E p \in TaskIds : TaskFinish(p)

SpecExec == ExecInit /\ [][ExecNext]_vars

\* the same Run with the scheduling of the Go runtime: Run's own goroutine and
\* every task goroutine that can take a step takes one in the end, and the
\* cache and provider calls of a task return; nothing makes the deadline fire
TaskStep(p) ==
  \/ TaskAcquire(p) \/ TaskCancelExit(p)
  \/ SfDo(p) \/ GetLRU(p) \/ GetDBRead(p) \/ GetDBFin(p) \/ SfFinish(p)
  \/ TaskGetReturn(p) \/ TaskLimiter(p) \/ TaskSearch(p) \/ TaskSetDB(p)
  \/ TaskFinish(p)
ExecFairness ==
  /\ WF_vars(RunLoop \/ Dispatch \/ WaitDone \/ RunReturn)
  /\ \A p \in TaskIds : WF_vars(TaskStep(p))
SpecExecFair == ExecInit /\ [][ExecNext]_vars /\ ExecFairness

\* ---- one Run of a single tier over a memory-only cache (c.db == nil)
SemInit == ExecInit /\ ~hasDb

SemNext ==
  \/ RunCall(OneTierList)
  \/ RunLoop
  \/ Dispatch
  \/ WaitDone
  \/ RunReturn
  \/ Cancel
  \/ \E p \in TaskIds : TaskAcquire(p)
  \/ \E p \in TaskIds : TaskCancelExit(p)
  \/ \E p \in TaskIds : SfDo(p)
  \/ \E p \in TaskIds : GetLRU(p)
  \/ \E p \in TaskIds : SfFinish(p)
  \/ \E p \in TaskIds : TaskGetReturn(p)
  \/ \E p \in TaskIds : TaskLimiter(p)
  \/ \E p \in TaskIds : TaskSearch(p)
  \/ \E p \in TaskIds : TaskFinish(p)

SpecSem == SemInit /\ [][SemNext]_vars

\* ---- the end of a Run, over every merged evidence list of up to MaxMerged
\* items: all tiers are through, deduplication and the return are left
MergedLists == UNION {[1..n -> EvidenceIds] : n \in 0..MaxMerged}

DedupInit ==
  /\ ExecInit
  /\ ~hasDb

DedupStart ==
  /\ runPc = "ready"
  /\ \E ev \in MergedLists : allEv' = ev
  /\ runPc' = "loop"
  /\ tier' = 4
  /\ UNCHANGED <<restVars, cacheVars, procVars, histVars, queries, cancelled, sem, wg,
                 batchEv, result, taskVars>>

DedupNext == DedupStart \/ RunReturn

SpecDedup == DedupInit /\ [][DedupNext]_vars

\* ------------------------------------------------------------ the planner
\* A text is a sequence of tokens: words, and the separators between them that
\* are not plain spaces. A text without a word (blank, say) is the empty one.
Quote == "\""
Separators == {Quote}
\* what splits an evidence text besides spaces
TextSeparators == {"|"}

\* strings.ToLower, word by word
ToLower(word) ==
  CASE word = "Loom" -> "loom"
    [] word = "Agentic" -> "agentic"
    [] word = "AI" -> "ai"
    [] word = "A" -> "a"
    [] word = "TAM" -> "tam"
    [] word = "Alpha" -> "alpha"
    [] OTHER -> word

\* strings.Title of a lower-case word: its first letter in upper case; a word
\* that starts with a digit is left as it is
StringsTitle(word) ==
  CASE word = "loom" -> "Loom"
    [] word = "agentic" -> "Agentic"
    [] word = "coding" -> "Coding"
    [] word = "assistant" -> "Assistant"
    [] word = "the" -> "The"
    [] word = "ai" -> "Ai"
    [] OTHER -> word

LowerAll(text) == [i \in 1..Len(text) |-> ToLower(text[i])]

\* strings.FieldsFunc with the separator test of normalizeText / normalizeQuery:
\* everything that is not a lower-case letter or a digit splits
FieldsFunc(text) == SelectSeq(text, LAMBDA t : t \notin Separators)

stopWords ==
  {"the", "a", "an", "and", "or", "but", "in", "on", "at", "to", "for", "of",
   "with", "by", "is", "are", "was", "were", "be", "been", "have", "has", "had",
   "do", "does", "did", "will", "would", "could", "should"}

normalizeText(text) ==
  LET words == FieldsFunc(LowerAll(text))
  IN  SelectSeq(words, LAMBDA word : Len(word) > 2 /\ word \notin stopWords)

extractKeyTerms(title, oneLiner) ==
  LET words == title \o oneLiner
      keyTerms[i \in 0..Len(words)] ==
        IF i = 0 THEN <<>>
        ELSE LET word == ToLower(words[i])
                 sofar == keyTerms[i - 1]
                 seen == {sofar[j] : j \in 1..Len(sofar)}
             IN  IF word \in seen \/ Len(word) < 3 THEN sofar
                 ELSE IF Len(word) >= 5 \/ StringsTitle(word) = word
                        THEN Append(sofar, word)
                        ELSE sofar
  IN  keyTerms[Len(words)]

min(a, b) == IF a < b THEN a ELSE b

\* fmt.Sprintf(template, arg) with one %s in the template
Sprintf(template, arg) ==
  LET out[i \in 0..Len(template)] ==
        IF i = 0 THEN <<>>
        ELSE out[i - 1] \o (IF template[i] = "%s" THEN arg ELSE <<template[i]>>)
  IN  out[Len(template)]

\* every query is given the first priority
SearchQueryFirstPriority(query, intent, priority) ==
  [Query |-> query, Intent |-> intent, Priority |-> 1]

SearchQuery(query, intent, priority) ==
  [Query |-> query, Intent |-> intent, Priority |-> priority]

\* the loop all six generators share: the first nTerms key terms, each under the
\* first four templates
TemplateQueries(keyTerms, nTerms, templates, intent, priority) ==
  LET terms == SubSeq(keyTerms, 1, min(Len(keyTerms), nTerms))
      used == SubSeq(templates, 1, 4)
  IN  [k \in 1..(Len(terms) * Len(used)) |->
         SearchQuery(Sprintf(used[((k - 1) % Len(used)) + 1],
                             <<terms[((k - 1) \div Len(used)) + 1]>>),
                     intent, priority)]

CompetitorTemplates ==
  << <<"%s", "competitors">>, <<"%s", "alternative">>,
     <<"%s", "similar", "companies">>, <<"companies", "like", "%s">>,
     <<"%s", "vs", "competitors">>, <<"best", "%s", "tools">>,
     <<"%s", "market", "leaders">>, <<"top", "%s", "startups">> >>
FundingTemplates ==
  << <<"%s", "startup", "funding">>, <<"%s", "series", "A">>,
     <<"%s", "investment">>, <<"%s", "venture", "capital">>,
     <<"%s", "raised", "money">>, <<"funding", "%s", "startups">>,
     <<"%s", "IPO">>, <<"%s", "acquisition">> >>
RegulatoryTemplates ==
  << <<"%s", "regulation">>, <<"%s", "compliance">>,
     <<"%s", "legal", "requirements">>, <<"%s", "government", "rules">>,
     <<"%s", "licensing">>, <<"%s", "permits">>,
     <<"%s", "regulatory", "approval">>, <<"%s", "FDA", "approval">> >>
PostmortemTemplates ==
  << <<"%s", "startup", "failed">>, <<"%s", "company", "shut", "down">>,
     <<"%s", "startup", "postmortem">>, <<"why", "%s", "failed">>,
     <<"%s", "startup", "lessons">>, <<"failed", "%s", "companies">>,
     <<"%s", "startup", "mistakes">>, <<"%s", "business", "failed">> >>
MarketTemplates ==
  << <<"%s", "market", "size">>, <<"%s", "industry", "trends">>,
     <<"%s", "market", "research">>, <<"%s", "TAM">>,
     <<"%s", "market", "opportunity">>, <<"global", "%s", "market">>,
     <<"%s", "industry", "analysis">>, <<"%s", "market", "growth">> >>
ProblemTemplates ==
  << <<"%s", "problems">>, <<"%s", "pain", "points">>,
     <<"users", "complain", "%s">>, <<"%s", "frustrations">>,
     <<"why", "%s", "sucks">>, <<"%s", "issues">>,
     <<"problems", "with", "%s">>, <<"%s", "challenges">> >>

\* the generator without its closing query on the idea's own title
generateCompetitorQueriesTermsOnly(keyTerms, idea) ==
  TemplateQueries(keyTerms, 3, CompetitorTemplates, "competitors", 1)

generateCompetitorQueries(keyTerms, idea) ==
  TemplateQueries(keyTerms, 3, CompetitorTemplates, "competitors", 1)
    \o <<SearchQuery(Sprintf(<<Quote, "%s", Quote, "competitors">>, idea.Title),
                     "competitors", 2)>>
generateFundingQueries(keyTerms, idea) ==
  TemplateQueries(keyTerms, 2, FundingTemplates, "funding", 2)
generateRegulatoryQueries(keyTerms, idea) ==
  TemplateQueries(keyTerms, 2, RegulatoryTemplates, "regulation", 2)
generatePostmortemQueries(keyTerms, idea) ==
  TemplateQueries(keyTerms, 2, PostmortemTemplates, "postmortems", 3)
generateMarketQueries(keyTerms, idea) ==
  TemplateQueries(keyTerms, 2, MarketTemplates, "market", 1)
generateProblemQueries(keyTerms, idea) ==
  TemplateQueries(keyTerms, 2, ProblemTemplates, "problem", 1)

\* normalizeQuery: lower case, split into words, joined by single spaces (no
\* sorting takes place)
normalizeQuery(query) == FieldsFunc(LowerAll(query))

\* a similarity is the fraction <<numerator, denominator>>
Zero == <<0, 1>>
\* ratio > tenths / 10
GreaterThan(ratio, tenths) == 10 * ratio[1] > tenths * ratio[2]

\* a similarity that never finds two qs alike
jaccardNothingAlike(query1, query2) == Zero

jaccardSimilarity(query1, query2) ==
  LET set1 == {query1[i] : i \in 1..Len(query1)}
      set2 == {query2[i] : i \in 1..Len(query2)}
      intersection == Cardinality(set1 \cap set2)
      union == Cardinality(set1) + Cardinality(set2) - intersection
  IN  IF union = 0 THEN Zero ELSE <<intersection, union>>

\* deduplicateQueries, lines 242-259: the loop from the i-th query on, with the
\* queries accepted so far and their normalized texts
RECURSIVE uniqueFrom(_, _, _, _)
uniqueFrom(qs, i, unique, seen) ==
  IF i > Len(qs) THEN unique
  ELSE LET normalized == normalizeQuery(qs[i].Query)
           isDuplicate ==
             \E existing \in seen :
               GreaterThan(jaccardSimilarity(normalized, existing), 8)
       IN  IF isDuplicate THEN uniqueFrom(qs, i + 1, unique, seen)
           ELSE uniqueFrom(qs, i + 1, Append(unique, qs[i]),
                           seen \cup {normalized})

deduplicateQueries(qs) ==
  IF Len(qs) <= 1 THEN qs ELSE uniqueFrom(qs, 1, <<>>, {})

\* Plan, lines 28-40: the candidates in the order they are generated
Candidates(idea) ==
  LET normalizedTitle == normalizeText(idea.Title)
      normalizedOneLiner == normalizeText(idea.OneLiner)
      keyTerms == extractKeyTerms(normalizedTitle, normalizedOneLiner)
  IN  generateCompetitorQueries(keyTerms, idea)
        \o generateFundingQueries(keyTerms, idea)
        \o generateRegulatoryQueries(keyTerms, idea)
        \o generatePostmortemQueries(keyTerms, idea)
        \o generateMarketQueries(keyTerms, idea)
        \o generateProblemQueries(keyTerms, idea)

\* a cut that keeps the tail of the list
LimitFromEnd(qs, maxQueries) ==
  IF Len(qs) > maxQueries
    THEN SubSeq(qs, Len(qs) - maxQueries + 1, Len(qs))
    ELSE qs

\* Plan, lines 45-47
Limit(qs, maxQueries) ==
  IF Len(qs) > maxQueries THEN SubSeq(qs, 1, maxQueries) ELSE qs

Plan(idea, maxQueries) ==
  [queries |-> Limit(deduplicateQueries(Candidates(idea)), maxQueries),
   err |-> "nil"]

\* ---- Plan over every idea of a one-word title and a short one-liner
TitleWords == {"Loom", "Agentic", "AI", "4all"}
OneLinerWords == {"Agentic", "coding", "assistant", "the"}
\* a title is empty or a single word
Titles == {<<>>} \cup {<<word>> : word \in TitleWords}
OneLiners == UNION {[1..k -> OneLinerWords] : k \in 0..MaxOneLiner}
Ideas == [Title : Titles, OneLiner : OneLiners]
\* the planner's limit: MAX_QUERIES, 20 unless the environment says otherwise
MaxQueries == 20
MaxQueriesChoices == {1, MaxQueries}

PlanCalls ==
  {[fn |-> "Plan", arg |-> [idea |-> idea, maxQueries |-> m], ret |-> <<>>,
    returned |-> FALSE] : idea \in Ideas, m \in MaxQueriesChoices}

PlanInit ==
  /\ QuietInit
  /\ ~hasDb
  /\ call \in PlanCalls

PlanCall ==
  /\ call.fn = "Plan"
  /\ ~call.returned
  /\ call' = [call EXCEPT !.ret = Plan(call.arg.idea, call.arg.maxQueries),
                          !.returned = TRUE]
  /\ UNCHANGED <<cacheVars, procVars, histVars, execVars, otherVars>>

PlanNext == PlanCall

SpecPlan == PlanInit /\ [][PlanNext]_vars

\* --------------------------------------------------------- the normalizer
\* A URL is held in the form url.Parse gives it; u.String() writes it back.
Url(scheme, opaque, host, path, query) ==
  [Scheme |-> scheme, Opaque |-> opaque, Host |-> host, Path |-> path,
   Query |-> query]
\* the parse of the empty string, which canonicalizeURL returns for a URL it
\* rejects
EmptyUrl == Url("", <<>>, <<>>, <<>>, <<>>)

trackingParams ==
  {"utm_source", "utm_medium", "utm_campaign", "utm_term", "utm_content",
   "gclid", "fbclid", "msclkid", "ref", "referrer", "source",
   "_ga", "_gl", "mc_cid", "mc_eid", "WT.mc_id",
   "campaign", "medium", "content", "term"}

\* the query keys of the model, in the byte order url.Values.Encode sorts by
KeyOrder == <<"b", "id", "ref", "utm_source">>

\* url.Values.Encode: the keys in sorted order, the values of one key in the
\* order they came
RECURSIVE EncodeFrom(_, _)
EncodeFrom(q, k) ==
  IF k > Len(KeyOrder) THEN <<>>
  ELSE SelectSeq(q, LAMBDA p : p.k = KeyOrder[k]) \o EncodeFrom(q, k + 1)
Encode(q) == EncodeFrom(q, 1)

\* q.Del(param) for every tracking parameter
DelTracking(q) == SelectSeq(q, LAMBDA p : p.k \notin trackingParams)

\* strings.HasPrefix(u.Host, "www."), the host held as its labels
HasWwwPrefix(host) == Len(host) >= 2 /\ host[1] = "www"

canonicalizeURL(u) ==
  IF u.Scheme # "http" /\ u.Scheme # "https" THEN EmptyUrl
  ELSE [u EXCEPT !.Query = Encode(DelTracking(u.Query)),
                 !.Host = IF HasWwwPrefix(u.Host) THEN Tail(u.Host) ELSE u.Host]

\* the tokens of a list joined by a separator token
RECURSIVE Join(_, _)
Join(parts, sep) ==
  IF parts = <<>> THEN <<>>
  ELSE IF Len(parts) = 1 THEN <<parts[1]>>
  ELSE <<parts[1], sep>> \o Join(Tail(parts), sep)

RECURSIVE QueryString(_)
QueryString(q) ==
  IF q = <<>> THEN <<>>
  ELSE <<q[1].k, "=", q[1].v>>
         \o (IF Len(q) > 1 THEN <<"&">> ELSE <<>>) \o QueryString(Tail(q))

\* u.String(), as the pieces of the string in order
UrlString(u) ==
  (IF u.Scheme = "" THEN <<>> ELSE <<u.Scheme, ":">>)
    \o (IF u.Opaque # <<>> THEN u.Opaque
        ELSE (IF u.Host # <<>> THEN <<"//">> \o Join(u.Host, ".") ELSE <<>>)
               \o u.Path)
    \o (IF u.Query # <<>> THEN <<"?">> \o QueryString(u.Query) ELSE <<>>)

\* the length of a string given by its pieces
RECURSIVE PiecesLen(_)
PiecesLen(pieces) ==
  IF pieces = <<>> THEN 0 ELSE Len(pieces[1]) + PiecesLen(Tail(pieces))
\* the length of a text: its tokens, and one space between two words in a row
TextLen(text) ==
  PiecesLen(text)
    + Cardinality({i \in 1..(Len(text) - 1) :
                     text[i] \notin TextSeparators /\ text[i + 1] \notin TextSeparators})

tokenizeStopWords ==
  {"the", "a", "an", "and", "or", "but", "in", "on", "at", "to", "for", "of",
   "with", "by"}

tokenize(text) ==
  LET words == SelectSeq(LowerAll(text), LAMBDA t : t \notin TextSeparators)
  IN  SelectSeq(words, LAMBDA word : Len(word) > 2 /\ word \notin tokenizeStopWords)

textSimilarity(text1, text2) ==
  IF text1 = <<>> \/ text2 = <<>> THEN Zero
  ELSE LET words1 == tokenize(text1)
           words2 == tokenize(text2)
           set1 == {words1[i] : i \in 1..Len(words1)}
           set2 == {words2[i] : i \in 1..Len(words2)}
           intersection == Cardinality(set1 \cap set2)
           union == Cardinality(set1) + Cardinality(set2) - intersection
       IN  IF union = 0 THEN Zero ELSE <<intersection, union>>

extractDomain(u) == u.Host

\* areContentSimilar without the rule for two items of one domain
areContentSimilarAcrossDomains(ev1, ev2) ==
  \/ GreaterThan(textSimilarity(ev1.Title, ev2.Title), 8)
  \/ /\ ev1.Snippet # <<>>
     /\ ev2.Snippet # <<>>
     /\ GreaterThan(textSimilarity(ev1.Snippet, ev2.Snippet), 7)

areContentSimilar(ev1, ev2) ==
  LET titleSim == textSimilarity(ev1.Title, ev2.Title)
  IN  \/ GreaterThan(titleSim, 8)
      \/ /\ ev1.Snippet # <<>>
         /\ ev2.Snippet # <<>>
         /\ GreaterThan(textSimilarity(ev1.Snippet, ev2.Snippet), 7)
      \/ /\ extractDomain(ev1.URL) = extractDomain(ev2.URL)
         /\ GreaterThan(titleSim, 6)

\* the day of the call, for time.Since
Today == 1000

\* A time is <<day>> or, with a fraction of a second to it, <<day, nanoseconds>>
Nanos(t) == IF Len(t) > 1 THEN t[2] ELSE 0
\* t.After(u)
After(t, u) == t[1] > u[1] \/ (t[1] = u[1] /\ Nanos(t) > Nanos(u))

\* A float64 between 0 and 4 is <<hi, lo>>: the number (hi * Limb + lo) / 2^56,
\* every float64 from 1/16 up being a whole number of such units
Limb == 536870912
\* the float64 a decimal constant n/10 of the source stands for:
\* 0.1 = 0x3FB999999999999A, 0.2 = 0x3FC999999999999A, 0.3 = 0x3FD3333333333333, ...
Float64(n) ==
  CASE n = 0 -> <<0, 0>>
    [] n = 1 -> <<13421772, 429496730>>
    [] n = 2 -> <<26843545, 322122548>>
    [] n = 3 -> <<40265318, 214748364>>
    [] n = 4 -> <<53687091, 107374184>>
    [] n = 5 -> <<67108864, 0>>
    [] n = 6 -> <<80530636, 429496728>>
    [] n = 7 -> <<93952409, 322122544>>
    [] n = 8 -> <<107374182, 214748368>>
    [] n = 9 -> <<120795955, 107374184>>
    [] n = 10 -> <<134217728, 0>>

\* the spacing of the float64s around a number of the given hi part: 53
\* significant bits
Spacing(hi) ==
  IF hi >= 268435456 THEN 32
  ELSE IF hi >= 134217728 THEN 16
  ELSE IF hi >= 67108864 THEN 8
  ELSE IF hi >= 33554432 THEN 4
  ELSE IF hi >= 16777216 THEN 2
  ELSE 1

\* float64 addition: the exact sum, rounded to the nearest float64, a tie to the
\* even one
FloatAdd(a, b) ==
  LET lo == (a[2] + b[2]) % Limb
      hi == a[1] + b[1] + ((a[2] + b[2]) \div Limb)
      q == Spacing(hi)
      r == lo % q
      down == lo - r
      up == 2 * r > q \/ (2 * r = q /\ (down \div q) % 2 = 1)
      rounded == IF up THEN down + q ELSE down
  IN  IF rounded = Limb THEN <<hi + 1, 0>> ELSE <<hi, rounded>>

\* a > b on float64s
FloatGreater(a, b) == a[1] > b[1] \/ (a[1] = b[1] /\ a[2] > b[2])

\* the decimal constants of the source, in tenths: sourceScores and the four
\* bonuses; Float64 gives the float64 each one is
sourceScores(sourceType) ==
  CASE sourceType = "news" -> 10
    [] sourceType \in {"database", "regulatory"} -> 9
    [] sourceType = "academic" -> 8
    [] sourceType \in {"professional", "startup"} -> 7
    [] sourceType = "code" -> 6
    [] sourceType = "blog" -> 5
    [] sourceType = "forum" -> 4
    [] sourceType \in {"social", "video"} -> 3
    [] sourceType = "website" -> 2
    [] sourceType = "unknown" -> 1
    [] OTHER -> 0

\* the constants scoreEvidenceQuality adds up, in the order it adds them; a
\* part that does not apply adds nothing
ScoreParts(ev) ==
  <<sourceScores(ev.SourceType),
    IF ev.PublishedAt = <<>> THEN 0
    ELSE LET daysSince == Today - ev.PublishedAt[1]
         IN  IF daysSince <= 30 THEN 5
             ELSE IF daysSince <= 365 THEN 3
             ELSE IF daysSince <= 365 * 3 THEN 1 ELSE 0,
    IF TextLen(ev.Title) > 10 THEN 2 ELSE 0,
    IF TextLen(ev.Snippet) > 50 THEN 2 ELSE 0,
    IF PiecesLen(UrlString(ev.URL)) < 100 THEN 1 ELSE 0>>

scoreEvidenceQuality(ev) ==
  LET part == ScoreParts(ev)
      plus(score, k) == FloatAdd(score, Float64(part[k]))
  IN  plus(plus(plus(plus(plus(Float64(0), 1), 2), 3), 4), 5)

\* selectBestEvidence: the first of the group with the highest score
selectBestEvidence(evidence, indices) ==
  LET score(k) == scoreEvidenceQuality(evidence[indices[k]])
      best == CHOOSE k \in 1..Len(indices) :
                /\ \A l \in 1..Len(indices) : ~FloatGreater(score(l), score(k))
                /\ \A l \in 1..(k - 1) : FloatGreater(score(k), score(l))
  IN  evidence[indices[best]]

\* filterSimilarContent, lines 560-586: the loop from the i-th item on
RECURSIVE filterFrom(_, _, _, _)
filterFrom(evidence, i, processed, filtered) ==
  IF i > Len(evidence) THEN filtered
  ELSE IF i \in processed THEN filterFrom(evidence, i + 1, processed, filtered)
  ELSE LET later == [k \in 1..(Len(evidence) - i) |-> i + k]
           similar ==
             <<i>> \o SelectSeq(later, LAMBDA j :
                        j \notin processed
                          /\ areContentSimilar(evidence[i], evidence[j]))
           best == selectBestEvidence(evidence, similar)
       IN  filterFrom(evidence, i + 1,
                      processed \cup {similar[k] : k \in 1..Len(similar)},
                      Append(filtered, best))

filterSimilarContent(evidence) ==
  IF Len(evidence) <= 1 THEN evidence ELSE filterFrom(evidence, 1, {}, <<>>)

\* ev.PublishedAt != nil && (existing.PublishedAt == nil ||
\*   ev.PublishedAt.After(*existing.PublishedAt))
Replaces(ev, existing) ==
  /\ ev.PublishedAt # <<>>
  /\ \/ existing.PublishedAt = <<>>
     \/ After(ev.PublishedAt, existing.PublishedAt)

\* key := ev.URL + "|" + ev.Title
urlTitleKey(ev) == UrlString(ev.URL) \o <<"|">> \o ev.Title

\* deduplicateEvidence, lines 526-537: urlTitleMap after the items from the
\* i-th on, as the set of its [key, ev] entries
RECURSIVE urlTitleMapFrom(_, _, _)
urlTitleMapFrom(evidence, i, urlTitleMap) ==
  IF i > Len(evidence) THEN urlTitleMap
  ELSE LET ev == evidence[i]
           mapKey == urlTitleKey(ev)
           hit == {e \in urlTitleMap : e.key = mapKey}
       IN  IF hit = {}
             THEN urlTitleMapFrom(evidence, i + 1,
                                  urlTitleMap \cup {[key |-> mapKey, ev |-> ev]})
           ELSE IF Replaces(ev, (CHOOSE e \in hit : TRUE).ev)
             THEN urlTitleMapFrom(evidence, i + 1,
                    (urlTitleMap \ hit) \cup {[key |-> mapKey, ev |-> ev]})
           ELSE urlTitleMapFrom(evidence, i + 1, urlTitleMap)

\* lines 540-543: ranging over the map yields its values in an order the
\* runtime picks
MapOrders(urlTitleMap) ==
  LET values == {e.ev : e \in urlTitleMap}
      n == Cardinality(values)
  IN  {o \in [1..n -> values] : \A i, j \in 1..n : i # j => o[i] # o[j]}

\* deduplicateEvidence, for one such order: the items after the exact stage, and
\* what is returned
Normalizer_deduplicateEvidence(evidence, unique) ==
  IF Len(evidence) <= 1
    THEN [unique |-> evidence, filtered |-> evidence]
    ELSE [unique |-> unique, filtered |-> filterSimilarContent(unique)]

\* ---- canonicalizeURL over short URLs, deduplicateEvidence over short lists
Schemes == {"http", "https", "ftp"}
Labels == {"www", "x", "io"}
Params ==
  {[k |-> "utm_source", v |-> "1"], [k |-> "ref", v |-> "1"],
   [k |-> "id", v |-> "1"], [k |-> "id", v |-> "2"], [k |-> "b", v |-> "1"]}
Hosts == UNION {[1..n -> Labels] : n \in 1..MaxLabels}
Queries == UNION {[1..n -> Params] : n \in 0..MaxParams}
RawUrls ==
  {Url(s, <<>>, h, <<>>, q) : s \in Schemes, h \in Hosts, q \in Queries}

Page(host, name) == Url("https", <<>>, <<host, "io">>, <<"/", name>>, <<>>)
Item(u, title, snippet, publishedAt, sourceType) ==
  [URL |-> u, Title |-> title, Snippet |-> snippet,
   PublishedAt |-> publishedAt, SourceType |-> sourceType]
Story == <<"Alpha", "beta", "gamma">>
Digest == <<"delta", "epsilon", "zeta">>
\* normalized evidence: canonical URLs, cleaned titles and snippets
NormalizedItems ==
  { Item(Page("x", "a"), Story, <<>>, <<Today - 10>>, "website"),
    Item(Page("x", "a"), Story, <<>>, <<Today - 400>>, "website"),
    Item(Page("x", "a"), Story, <<>>, <<>>, "website"),
    Item(Page("y", "a"), <<"alpha", "beta", "gamma">>, Digest, <<>>, "news"),
    Item(Page("z", "a"), <<"theta", "kappa", "lambda">>, Digest, <<>>, "blog"),
    Item(Page("x", "b"), <<"alpha", "beta", "gamma", "delta">>, <<>>, <<>>, "forum"),
    Item(Url("http", <<"alpha">>, <<>>, <<>>, <<>>), <<"beta", "|", "gamma">>,
         <<>>, <<>>, "unknown"),
    Item(Url("http", <<"alpha", "|", "beta">>, <<>>, <<>>, <<>>), <<"gamma">>,
         <<>>, <<>>, "unknown") }
EvidenceLists == UNION {[1..n -> NormalizedItems] : n \in 0..MaxItems}

CanonicalizeCalls ==
  {[fn |-> "canonicalizeURL", arg |-> u, ret |-> EmptyUrl, returned |-> FALSE] :
     u \in RawUrls}
DeduplicateCalls ==
  {[fn |-> "deduplicateEvidence", arg |-> evidence, ret |-> <<>>,
    returned |-> FALSE] : evidence \in EvidenceLists}

NormInit ==
  /\ QuietInit
  /\ ~hasDb
  /\ \/ call \in CanonicalizeCalls
     \/ call \in DeduplicateCalls

CanonicalizeCall ==
  /\ call.fn = "canonicalizeURL"
  /\ ~call.returned
  /\ call' = [call EXCEPT !.ret = canonicalizeURL(call.arg), !.returned = TRUE]
  /\ UNCHANGED <<cacheVars, procVars, histVars, execVars, otherVars>>

DeduplicateCall ==
  /\ call.fn = "deduplicateEvidence"
  /\ ~call.returned
  /\ \E unique \in MapOrders(urlTitleMapFrom(call.arg, 1, {})) :
       call' = [call EXCEPT !.ret = Normalizer_deduplicateEvidence(call.arg, unique),
                            !.returned = TRUE]
  /\ UNCHANGED <<cacheVars, procVars, histVars, execVars, otherVars>>

NormNext == CanonicalizeCall \/ DeduplicateCall

SpecNorm == NormInit /\ [][NormNext]_vars

\* ------------------------------------------------- Normalize, lines 328-344
\* extra white space in a raw text: a space more than the one between two
\* words, a line break, a tab
WhiteSpace == {" ", "\n", "\t"}

\* cleanText: the ends trimmed, line breaks and tabs made spaces, runs of
\* spaces made one space, which leaves the words one space apart. The cut at
\* 500 bytes, lines 435-438, is not reached: every text here is far shorter.
cleanText(text) == SelectSeq(text, LAMBDA t : t \notin WhiteSpace)

\* publishedAt.Format(time.RFC3339): the date and the time of day to the
\* second, the time of the model's inputs being midnight plus nanoseconds
FormatRFC3339(t) == <<ToString(t[1])>>

\* generateStableID: the first 8 bytes of the SHA-256 of content, taken to tell
\* any two contents apart, so that the id is the content itself
generateStableID(u, title, publishedAt) ==
  LET timeStr == IF publishedAt # <<>> THEN FormatRFC3339(publishedAt) ELSE <<>>
  IN  UrlString(u) \o <<"|">> \o title \o <<"|">> \o timeStr

\* lines 464-494
sourceTypes(domain) ==
  CASE domain \in {<<"techcrunch", "com">>, <<"venturebeat", "com">>,
                   <<"arstechnica", "com">>, <<"theverge", "com">>,
                   <<"wired", "com">>, <<"reuters", "com">>,
                   <<"bloomberg", "com">>, <<"wsj", "com">>,
                   <<"nytimes", "com">>, <<"forbes", "com">>,
                   <<"fortune", "com">>, <<"businessinsider", "com">>} -> "news"
    [] domain \in {<<"crunchbase", "com">>, <<"pitchbook", "com">>} -> "database"
    [] domain \in {<<"sec", "gov">>, <<"fda", "gov">>} -> "regulatory"
    [] domain \in {<<"reddit", "com">>, <<"news", "ycombinator", "com">>,
                   <<"stackoverflow", "com">>} -> "forum"
    [] domain = <<"github", "com">> -> "code"
    [] domain \in {<<"medium", "com">>, <<"substack", "com">>} -> "blog"
    [] domain = <<"linkedin", "com">> -> "professional"
    [] domain \in {<<"twitter", "com">>, <<"x", "com">>} -> "social"
    [] domain = <<"youtube", "com">> -> "video"
    [] domain \in {<<"angellist", "com">>, <<"wellfound", "com">>} -> "startup"
    [] domain = <<"producthunt", "com">> -> "product"
    [] domain \in {<<"ycombinator", "com">>, <<"techstars", "com">>} -> "accelerator"
    [] OTHER -> ""

\* strings.Contains(domain, pattern): the labels used here that hold the pattern
Contains(domain, pattern) ==
  \E i \in 1..Len(domain) :
    domain[i] \in (CASE pattern = "gov" -> {"gov"}
                     [] pattern = "edu" -> {"edu"}
                     [] pattern = "blog" -> {"blog", "blogspot"}
                     [] pattern = "news" -> {"news", "technews"})

inferSourceType(u) ==
  LET domain == LowerAll(u.Host)
  IN  IF sourceTypes(domain) # "" THEN sourceTypes(domain)
      ELSE IF Contains(domain, "gov") THEN "government"
      ELSE IF Contains(domain, "edu") THEN "academic"
      ELSE IF Contains(domain, "blog") THEN "blog"
      ELSE IF Contains(domain, "news") THEN "news"
      ELSE "website"

\* normalizeEvidence: <<>> stands for nil
normalizeEvidence(ev) ==
  IF ev.URL = EmptyUrl \/ ev.Title = <<>> THEN <<>>
  ELSE LET canonicalURL == canonicalizeURL(ev.URL)
           cleanTitle == cleanText(ev.Title)
       IN  IF canonicalURL = EmptyUrl THEN <<>>
           ELSE <<[ID |-> generateStableID(canonicalURL, cleanTitle, ev.PublishedAt),
                   URL |-> canonicalURL,
                   Title |-> cleanTitle,
                   Snippet |-> cleanText(ev.Snippet),
                   PublishedAt |-> ev.PublishedAt,
                   SourceType |-> IF ev.SourceType = ""
                                    THEN inferSourceType(canonicalURL)
                                    ELSE ev.SourceType]>>

\* Normalize, lines 330-335
RECURSIVE normalizedFrom(_, _)
normalizedFrom(evidence, i) ==
  IF i > Len(evidence) THEN <<>>
  ELSE normalizeEvidence(evidence[i]) \o normalizedFrom(evidence, i + 1)

\* sort.Slice on a slice of at most 12 elements is an insertion sort: an element
\* moves left past those the less function puts it before
RECURSIVE sortFrom(_, _, _)
sortFrom(scored, i, sorted) ==
  IF i > Len(scored) THEN sorted
  ELSE LET se == scored[i]
           stays == Cardinality({k \in 1..Len(sorted) :
                      \A l \in k..Len(sorted) : FloatGreater(se.score, sorted[l].score)})
           at == Len(sorted) - stays
       IN  sortFrom(scored, i + 1,
                    SubSeq(sorted, 1, at) \o <<se>> \o SubSeq(sorted, at + 1, Len(sorted)))

\* filterByQuality without its threshold and its sort
filterByQualityKeepingAll(evidence) == evidence

filterByQuality(evidence) ==
  LET all == [i \in 1..Len(evidence) |->
                [evidence |-> evidence[i], score |-> scoreEvidenceQuality(evidence[i])]]
      scored == SelectSeq(all, LAMBDA se : FloatGreater(se.score, Float64(3)))
      ranked == sortFrom(scored, 1, <<>>)
  IN  [i \in 1..Len(ranked) |-> ranked[i].evidence]

\* Normalize, for the order in which deduplicateEvidence's map is ranged over
Normalize(evidence, unique) ==
  filterByQuality(Normalizer_deduplicateEvidence(normalizedFrom(evidence, 1), unique).filtered)

\* ---- Normalize and normalizeEvidence over short lists of raw evidence
Article(host, name) == Url("https", <<>>, host, <<"/", name>>, <<>>)
\* a path segment of 100 bytes
LongName ==
  "aaaaaaaaaabbbbbbbbbbccccccccccddddddddddeeeeeeeeeeffffffffffgggggggggghhhhhhhhhhiiiiiiiiiijjjjjjjjjj"
TechCrunch == <<"techcrunch", "com">>
Funding == <<"AI", "coding", "assistant", "raises", "funding">>
RawItems ==
  { Item(Article(TechCrunch, "a"), Funding, <<>>, <<>>, ""),
    Item(Article(<<"www">> \o TechCrunch, "b"), <<"\t">> \o Funding \o <<"\n", "round">>,
         <<>>, <<>>, ""),
    Item(Article(<<"x", "io">>, "a"), <<"Alpha">>, <<>>, <<>>, ""),
    Item(Article(<<"y", "io">>, "b"), <<"gamma">>, <<>>, <<>>, ""),
    Item(Article(<<"x", "io">>, "a"), <<"Alpha">>, <<>>, <<Today - 10>>, ""),
    Item(Article(<<"x", "io">>, "a"), <<"Alpha">>, <<>>, <<Today - 10, 5>>, ""),
    Item(Article(<<"x", "io">>, "c"), <<"Alpha">>, <<>>, <<>>, "unknown"),
    Item(Article(<<"x", "io">>, LongName), <<"Alpha">>, <<>>, <<>>, "unknown"),
    Item(Article(<<"x", "com">>, LongName), <<"zeta">>, <<>>, <<>>, ""),
    Item(Url("ftp", <<>>, <<"x", "io">>, <<"/", "a">>, <<>>), Funding, <<>>, <<>>, "news"),
    Item(Article(TechCrunch, "c"), <<"\n">>, <<>>, <<>>, ""),
    Item(Article(<<"x", "gov">>, "a"), Funding, <<>>, <<>>, "") }
RawLists == UNION {[1..n -> RawItems] : n \in 0..MaxRaw}

\* a run of calls on one input: arg is the input, ret the results so far
NormalizeCalls ==
  {[fn |-> fn, arg |-> evidence, ret |-> <<>>, returned |-> FALSE] :
     fn \in {"Normalize", "normalizeEvidence"}, evidence \in RawLists}

NormalizeInit ==
  /\ QuietInit
  /\ ~hasDb
  /\ call \in NormalizeCalls

\* one more call of Normalize on the input
NormalizeCall ==
  /\ call.fn = "Normalize"
  /\ Len(call.ret) < MaxNormalize
  /\ \E unique \in MapOrders(urlTitleMapFrom(normalizedFrom(call.arg, 1), 1, {})) :
       call' = [call EXCEPT !.ret = Append(@, Normalize(call.arg, unique)),
                            !.returned = TRUE]
  /\ UNCHANGED <<cacheVars, procVars, histVars, execVars, otherVars>>

\* normalizeEvidence on the next item of the input
NormalizeEvidenceCall ==
  /\ call.fn = "normalizeEvidence"
  /\ Len(call.ret) < Len(call.arg)
  /\ call' = [call EXCEPT !.ret = Append(@, normalizeEvidence(call.arg[Len(call.ret) + 1])),
                          !.returned = TRUE]
  /\ UNCHANGED <<cacheVars, procVars, histVars, execVars, otherVars>>

NormalizeNext == NormalizeCall \/ NormalizeEvidenceCall

SpecNormalize == NormalizeInit /\ [][NormalizeNext]_vars

\* ------------------------------------- the cleanup worker, lines 232-300
\* every row is deleted
CleanupEverything(d, t) == [h \in Hashes |-> NoRow]

\* CleanupExpired, line 234: DELETE FROM web_cache WHERE created_at +
\* (ttl_seconds || ' seconds')::INTERVAL < NOW(), one statement
CleanupExpired(d, t) ==
  [h \in Hashes |->
     IF d[h].present /\ d[h].entry.createdAt + d[h].entry.ttl < t
       THEN NoRow ELSE d[h]]

\* rows an earlier process has left, each with the ttl that process stored
StoredRows ==
  [Hashes -> {NoRow} \cup {Row(CacheEntry(Marshal(<<"e1">>), 0, t)) : t \in {Ttl - 1, Ttl}}]

\* the worker as a call of StartCleanupWorker: ret lists, for each sweep so
\* far, whether its DELETE went through
WorkerInit ==
  /\ InitNoRun
  /\ now = 0
  /\ lru = <<>>
  /\ hasDb = TRUE
  /\ dbDown = FALSE
  /\ db \in StoredRows
  /\ sf = [h \in Hashes |-> 0]
  /\ pendingDel = {}
  /\ warm = [pc |-> "done", rows |-> <<>>]
  /\ call = [fn |-> "StartCleanupWorker", arg |-> <<>>, ret |-> <<>>, returned |-> FALSE]
  /\ pc = [p \in Procs |-> "idle"]
  /\ key = [p \in Procs |-> "k1"]
  /\ val = [p \in Procs |-> NilEntry]
  /\ row = [p \in Procs |-> NoRow]
  /\ res = [p \in Procs |-> NoRes]
  /\ expect = [p \in Procs |-> NoExpect]
  /\ leader = [p \in Procs |-> FALSE]
  /\ ncalls = 0

\* StartCleanupWorker, lines 294-298: the ticker fires and CleanupExpired runs;
\* an error is passed over. CleanupExpired calls c.db.Exec (line 233) without
\* looking at c.db: on a nil *pgxpool.Pool the call dereferences nil and the
\* panic, which nothing recovers, ends the process and every goroutine in it
WorkerSweep ==
  /\ call.fn = "StartCleanupWorker"
  /\ ~call.returned
  /\ ~panicked
  /\ Len(call.ret) < MaxSweeps
  /\ IF hasDb
       THEN /\ \E ok \in BOOLEAN :
                 /\ db' = IF ok THEN CleanupExpired(db, now) ELSE db
                 /\ call' = [call EXCEPT !.ret = Append(@, ok)]
            /\ UNCHANGED <<panicked, pc, warm>>
       ELSE /\ panicked' = TRUE
            /\ pc' = [p \in Procs |-> "dead"]
            /\ warm' = [warm EXCEPT !.pc = "done"]
            /\ UNCHANGED <<db, call>>
  /\ UNCHANGED <<now, lru, hasDb, dbDown, sf, pendingDel, key, val, row, res, histVars,
                 execVars, doneCtx, analysisVars>>

\* StartCleanupWorker, lines 292-293: the context is done
WorkerStop ==
  /\ call.fn = "StartCleanupWorker"
  /\ ~call.returned
  /\ ~panicked
  /\ call' = [call EXCEPT !.returned = TRUE]
  /\ UNCHANGED <<cacheVars, procVars, histVars, execVars, otherVars>>

\* the goroutine that calls Set while the worker runs
Writer == CHOOSE p \in CallerIds : \A q \in CallerIds : p <= q

WorkerNext ==
  \/ \E k \in Keys : \E v \in Payloads(k) : SetCall(Writer, k, v)
  \/ SetDB(Writer)
  \/ SetReturn(Writer)
  \/ Tick
  \/ WorkerSweep
  \/ WorkerStop

SpecWorker == WorkerInit /\ [][WorkerNext]_vars

\* ---- coalesced lookups under the callers' own contexts
\* Get's ctx parameter, line 52: the context a direct caller passed is cancelled
CancelCaller(p) ==
  /\ runPc = "off"
  /\ p \in CallerIds
  /\ p \notin doneCtx
  /\ doneCtx' = doneCtx \cup {p}
  /\ UNCHANGED <<call, panicked, analysisVars, cacheVars, procVars, histVars, execVars>>

\* a cache over a reachable store, its warm-up over, before any call
CoalesceInit ==
  /\ InitCache
  /\ InitNoRun
  /\ hasDb

CoalesceNext ==
  \/ \E p \in CallerIds, k \in Keys : GetCall(p, k)
  \/ \E p \in CallerIds : SfDo(p)
  \/ \E p \in CallerIds : GetLRU(p)
  \/ \E p \in CallerIds : GetRm(p)
  \/ \E p \in CallerIds : GetDBRead(p)
  \/ \E p \in CallerIds : GetDBFin(p)
  \/ \E p \in CallerIds : SfFinish(p)
  \/ \E p \in CallerIds : GetReturn(p)
  \/ \E p \in CallerIds : CancelCaller(p)
  \/ \E h \in Hashes : DeleteDB(h)
  \/ WarmupQuery
  \/ WarmupAdd
  \/ Tick

SpecCoalesce == CoalesceInit /\ [][CoalesceNext]_vars

\* ---- the cache built without a persistent store (db = nil)
NilDbInit ==
  /\ InitNoRun
  /\ now = 0
  /\ lru = <<>>
  /\ hasDb = FALSE
  /\ dbDown = FALSE
  /\ db = [h \in Hashes |-> NoRow]
  /\ sf = [h \in Hashes |-> 0]
  /\ pendingDel = {}
  /\ warm = [pc |-> "query", rows |-> <<>>]
  /\ call = [fn |-> "StartCleanupWorker", arg |-> <<>>, ret |-> <<>>, returned |-> FALSE]
  /\ pc = [p \in Procs |-> "idle"]
  /\ key = [p \in Procs |-> "k1"]
  /\ val = [p \in Procs |-> NilEntry]
  /\ row = [p \in Procs |-> NoRow]
  /\ res = [p \in Procs |-> NoRes]
  /\ expect = [p \in Procs |-> NoExpect]
  /\ leader = [p \in Procs |-> FALSE]
  /\ ncalls = 0

\* Get, Set, the warm-up, the worker and the clock
NilDbNext ==
  \/ \E p \in CallerIds, k \in Keys : GetCall(p, k)
  \/ \E p \in CallerIds, k \in Keys : \E v \in Payloads(k) : SetCall(p, k, v)
  \/ \E p \in CallerIds : SfDo(p)
  \/ \E p \in CallerIds : GetLRU(p)
  \/ \E p \in CallerIds : GetRm(p)
  \/ \E p \in CallerIds : SfFinish(p)
  \/ \E p \in CallerIds : GetReturn(p)
  \/ \E p \in CallerIds : SetReturn(p)
  \/ WarmupQuery
  \/ Tick
  \/ WorkerSweep
  \/ WorkerStop

SpecNilDb == NilDbInit /\ [][NilDbNext]_vars

\* ---- from the searches to the evidence list: AnalyzeIdea, steps 2 and 3
\* Executor.deduplicateEvidence (executor.go:158-173) over whole evidence
\* records: the first item of a key stays
RECURSIVE UniqueFrom(_, _)
UniqueFrom(evidence, seen) ==
  IF evidence = <<>>
    THEN <<>>
    ELSE IF urlTitleKey(Head(evidence)) \in seen
           THEN UniqueFrom(Tail(evidence), seen)
           ELSE <<Head(evidence)>>
                  \o UniqueFrom(Tail(evidence), seen \cup {urlTitleKey(Head(evidence))})

Executor_deduplicateEvidence(evidence) == UniqueFrom(evidence, {})

\* arg is what the tasks of a Run have found, in the order they returned it
GatherCalls ==
  {[fn |-> "AnalyzeIdea", arg |-> evidence, ret |-> <<>>, returned |-> FALSE] :
     evidence \in RawLists}

GatherInit ==
  /\ QuietInit
  /\ ~hasDb
  /\ call \in GatherCalls

\* orchestrator.go:74-80: Run hands back its deduplicated evidence, Normalize
\* makes the evidence list of it
GatherEvidence ==
  /\ call.fn = "AnalyzeIdea"
  /\ ~call.returned
  /\ LET rawEvidence == Executor_deduplicateEvidence(call.arg)
     IN  \E unique \in MapOrders(urlTitleMapFrom(normalizedFrom(rawEvidence, 1), 1, {})) :
           call' = [call EXCEPT !.ret = Normalize(rawEvidence, unique),
                                !.returned = TRUE]
  /\ UNCHANGED <<cacheVars, procVars, histVars, execVars, otherVars>>

SpecGather == GatherInit /\ [][GatherEvidence]_vars

\* ------------------- Coordinator.AnalyzeAll and the end of AnalyzeIdea
\* the context the analyzers and the verdict run under: the one errgroup
\* derived (part_001:53, which also rebinds ctx) from AnalyzeIdea's, which has
\* the analysis deadline (orchestrator.go:57)
AnalysisCtxDone == orch.deadline \/ coord.groupCtxDone

\* ConstrainedJSON, client.go:144-201: nothing is asked under a context that
\* is done (limiter.Wait), and a request may fail anyway
LlmOutcomes == IF AnalysisCtxDone THEN {FALSE} ELSE BOOLEAN

\* orchestrator.go:92: step 5, AnalyzeAll is called
AnalyzeAllCall ==
  /\ orch.pc = "off"
  /\ orch' = [orch EXCEPT !.pc = "analyze"]
  /\ coord' = [coord EXCEPT !.pc = "go"]
  /\ UNCHANGED <<call, doneCtx, panicked, analyzer, cacheVars, procVars, histVars, execVars>>

\* AnalyzeAll, the g.Go calls of lines 56-144: the next analyzer's goroutine starts
Go ==
  /\ coord.pc = "go"
  /\ LET a == Analyzers[coord.started + 1]
     IN  analyzer' = [analyzer EXCEPT ![a] = "running"]
  /\ coord' = [coord EXCEPT !.started = @ + 1,
                            !.pc = IF coord.started + 1 = Len(Analyzers) THEN "wait" ELSE "go"]
  /\ UNCHANGED <<call, doneCtx, panicked, orch, cacheVars, procVars, histVars, execVars>>

\* one goroutine of lines 56-144: the analyzer returns; its error goes to
\* analysisErrors, its result to the variable kept for it, and the function
\* handed to g.Go returns nil either way
AnalyzerReturn(a) ==
  /\ analyzer[a] = "running"
  /\ analyzer' = [analyzer EXCEPT ![a] = "done"]
  /\ \E ok \in LlmOutcomes :
       coord' = IF ok THEN [coord EXCEPT !.results = @ \cup {a}]
                      ELSE [coord EXCEPT !.analysisErrors = @ \cup {a}]
  /\ UNCHANGED <<call, doneCtx, panicked, orch, cacheVars, procVars, histVars, execVars>>

\* AnalyzeAll, lines 146-148: g.Wait returns when every goroutine has, with
\* nil as none handed back an error; returning, it cancels the group's context
Wait ==
  /\ coord.pc = "wait"
  /\ \A a \in AnalyzerNames : analyzer[a] = "done"
  /\ coord' = [coord EXCEPT !.pc = "verdict", !.groupCtxDone = TRUE]
  /\ UNCHANGED <<call, doneCtx, panicked, analyzer, orch, cacheVars, procVars, histVars, execVars>>

\* AnalyzeAll, lines 151-194, with VerdictAnalyzer.Analyze (verdict.go:28-40):
\* the verdict is calculated, then enhanced by the model; Analyze hands back
\* the calculated verdict and no error when the enhancement fails, so nothing
\* is added to analysisErrors. AnalyzeAll returns the analysis and nil
VerdictAnalyze ==
  /\ coord.pc = "verdict"
  /\ \E ok \in LlmOutcomes :
       coord' = [coord EXCEPT !.verdict = IF ok THEN "enhanced" ELSE "calculated",
                              !.partial = coord.analysisErrors # {},
                              !.err = FALSE,
                              !.pc = "returned"]
  /\ orch' = [orch EXCEPT !.pc = "finalize"]
  /\ UNCHANGED <<call, doneCtx, panicked, analyzer, cacheVars, procVars, histVars, execVars>>

\* AnalyzeIdea, lines 97-107: the analysis is marked partial when the select
\* finds the context done
Finalize ==
  /\ orch.pc = "finalize"
  /\ orch' = [orch EXCEPT !.marked = orch.deadline,
                          !.partial = coord.partial \/ orch.deadline,
                          !.pc = "save"]
  /\ UNCHANGED <<call, doneCtx, panicked, analyzer, coord, cacheVars, procVars, histVars,
                 execVars>>

\* a transaction under AnalyzeIdea's context: none begins once the context is
\* done, and one may fail anyway
SaveOutcomes == IF orch.deadline THEN {FALSE} ELSE BOOLEAN

\* AnalyzeIdea, lines 108-113, with SaveAnalysis (repository.go:26-76): the
\* analysis is stored in one transaction and its id returned, or the error is
SaveAnalysis ==
  /\ orch.pc = "save"
  /\ \E ok \in SaveOutcomes :
       orch' = [orch EXCEPT !.saved = ok, !.err = ~ok, !.pc = "returned"]
  /\ UNCHANGED <<call, doneCtx, panicked, analyzer, coord, cacheVars, procVars, histVars,
                 execVars>>

\* context.WithTimeout, orchestrator.go:57: the analysis deadline fires
Deadline ==
  /\ orch.pc # "returned"
  /\ ~orch.deadline
  /\ orch' = [orch EXCEPT !.deadline = TRUE]
  /\ UNCHANGED <<call, doneCtx, panicked, analyzer, coord, cacheVars, procVars, histVars,
                 execVars>>

AnalyzeInit ==
  /\ QuietInit
  /\ ~hasDb
  /\ call = NoCall

AnalyzeNext ==
  \/ AnalyzeAllCall
  \/ Go
  \/ \E a \in AnalyzerNames : AnalyzerReturn(a)
  \/ Wait
  \/ VerdictAnalyze
  \/ Finalize
  \/ SaveAnalysis
  \/ Deadline

SpecAnalyze == AnalyzeInit /\ [][AnalyzeNext]_vars

\* ------------------------------------------------------------ the claims
ChainStates == {"getLRU", "getRm", "getDB", "getDBFin", "sfFin"}
Uncached(k) == ~LruContains(lru, hashKey(k)) /\ ~db[hashKey(k)].present

\* C3 as stated: Get calls on the same uncached key that are in progress at the
\* same time never run more than one lookup chain between them, and those that
\* have their result hold the same one.
C3_ExactlyOneChain ==
  \A p, q \in Procs :
    (p # q /\ InGet(p) /\ InGet(q) /\ key[p] = key[q] /\ Uncached(key[p]))
      => /\ ~(leader[p] /\ leader[q])
         /\ (pc[p] = "getRet" /\ pc[q] = "getRet" => res[p] = res[q])

\* C3, amended: at any moment at most one lookup chain per key is in flight, a
\* Get that reaches the coalescing point while a chain for its key is in flight
\* waits for that chain instead of starting its own, and it receives exactly
\* the result of the chain it waited for.
C3_OneChainInFlight ==
  /\ \A p, q \in Procs :
       (p # q /\ pc[p] \in ChainStates /\ pc[q] \in ChainStates) => key[p] # key[q]
  /\ \A p \in Procs :
       pc[p] = "sfWait" =>
         \E q \in Procs : pc[q] \in ChainStates /\ key[q] = key[p] /\ leader[q]
C3_JoinersShareResult ==
  \A p \in Procs :
    (pc[p] = "sfWait" /\ pc'[p] = "getRet") =>
       \E q \in Procs : /\ pc[q] = "sfFin" /\ pc'[q] = "getRet"
                        /\ key[q] = key[p]
                        /\ res'[p] = res[q] /\ res'[q] = res[q]
C3_Coalescing == [](C3_OneChainInFlight) /\ [][C3_JoinersShareResult]_vars

\* a caller that joined a chain in flight holds the chain's result
C3_Witness ==
  \E p, q \in Procs :
    /\ p # q /\ pc[p] = "getRet" /\ pc[q] = "getRet" /\ key[p] = key[q]
    /\ ~leader[p] /\ leader[q] /\ res[p] = res[q]

\* C5: whenever a lookup settles on an entry, from the memory tier or from the
\* persistent tier, the entry's age at that moment does not exceed its ttl.
C5_HitStep ==
  \A p \in Procs :
    (pc[p] \in {"getLRU", "getDBFin"} /\ pc'[p] = "sfFin" /\ res'[p].found) =>
       now - res'[p].entry.createdAt <= res'[p].entry.ttl
C5_NoExpiredHit == [][C5_HitStep]_vars

\* a Get reports a miss while the expired record is still in the persistent tier
C5_Witness ==
  \E p \in Procs :
    /\ pc[p] = "getRet" /\ ~res[p].found /\ ~res[p].err
    /\ db[hashKey(key[p])].present
    /\ now - db[hashKey(key[p])].entry.createdAt > db[hashKey(key[p])].entry.ttl
    /\ hashKey(key[p]) \in pendingDel

\* C6 as stated: a Get of k that follows a returned Set(k, v), within the ttl
\* and with no other Set of k in between, returns found with the value v.
C6_ReadAfterWrite ==
  \A p \in Procs :
    (pc[p] = "getRet" /\ expect[p].known /\ expect[p].key = key[p]) =>
       (res[p].found /\ res[p].entry.data = expect[p].data)

\* C10 as stated: Set reports success whatever the persistent write did.
C10_SetReportsSuccess ==
  \A p \in Procs : pc[p] = "setRet" => ~res[p].err

\* C10, amended: Set puts the entry into the memory tier before it attempts
\* the persistent write, and a failed persistent write leaves both tiers as
\* they are (the entry stays in the memory tier); but Set hands the write's
\* error back to its caller.
C10_SetStep ==
  \A p \in Procs :
    /\ (pc[p] \notin SetStates /\ pc'[p] \in SetStates) =>
          /\ LruContains(lru', hashKey(key'[p]))
          /\ LruPeek(lru', hashKey(key'[p])) = val'[p]
          /\ db' = db
    /\ (pc[p] = "setDB" /\ pc'[p] = "setRet" /\ res'[p].err) =>
          (db' = db /\ lru' = lru)
C10_MemoryFirst == [][C10_SetStep]_vars

\* a Set whose persistent write failed is about to return the error, and its
\* entry is in the memory tier
C10_Witness ==
  \E p \in Procs :
    /\ pc[p] = "setRet" /\ res[p].err
    /\ LruContains(lru, hashKey(key[p]))
    /\ LruPeek(lru, hashKey(key[p])) = val[p]

\* ---------------------------------------------------------- executor claims
Tier(p) == Bucket(queries[p].priority)
\* executeQuery in progress
ExecStates == {"sfDo", "sfWait", "getLRU", "getRm", "getDB", "getDBFin", "sfFin",
               "getRet", "limiter", "search", "setDB"}
Executing == {p \in TaskIds : pc[p] \in ExecStates}
\* holding a slot of the semaphore: executing, or back from executeQuery and
\* not yet through the deferred release
Holding == {p \in TaskIds : pc[p] \in ExecStates \cup {"fin"}}

\* C1: the tiers are processed in the order 1, 2, 3 with a barrier: a task is
\* only spawned (let alone executing) while its tier is the current one, and
\* not before every task of every higher-priority tier has finished.
C1_TierBarrier ==
  /\ \A q \in TaskIds : pc[q] \notin {"idle", "done"} => Tier(q) = tier
  /\ \A p, q \in TaskIds :
       (Tier(p) < Tier(q) /\ pc[q] # "idle") => pc[p] = "done"

\* a task of the last tier (its priority was out of range) executes after the
\* two tasks of tier 1 and the task of tier 2 have finished
C1_Witness ==
  \E q \in TaskIds :
    /\ queries[q].priority \notin 1..3 /\ pc[q] \in ExecStates
    /\ \E p1, p2, p3 \in TaskIds :
         /\ p1 # p2 /\ Tier(p1) = 1 /\ Tier(p2) = 1 /\ Tier(p3) = 2
         /\ pc[p1] = "done" /\ pc[p2] = "done" /\ pc[p3] = "done"

\* C2: at every moment of a Run at most 3 tasks are inside executeQuery (or
\* hold a slot at all); the semaphore counts exactly the slot holders, and
\* every other spawned task that has not finished waits at the semaphore.
C2_AtMostThree ==
  /\ Cardinality(Executing) <= 3
  /\ Cardinality(Holding) <= SemCapacity
  /\ runPc \in {"dispatch", "wait"} => sem = Cardinality(Holding)
  /\ \A p \in TaskIds : (pc[p] \notin {"idle", "done"} /\ p \notin Holding) => pc[p] = "sem"

\* three executions in flight, a fourth task waits for a slot
C2_Witness ==
  /\ ~cancelled
  /\ Cardinality(Executing) = 3
  /\ \E p \in TaskIds : pc[p] = "sem"

\* C4 as stated: two tasks with the same cache key never both have a provider
\* call in flight.
C4_SingleFetch ==
  \A p, q \in TaskIds :
    (p # q /\ pc[p] = "search" /\ pc[q] = "search") => key[p] # key[q]

\* the evidence that executeQuery calls have handed back and Run holds
Collected ==
  Items(allEv) \cup Items(batchEv)
    \cup UNION {Items(got[p]) : p \in {t \in TaskIds : pc[t] = "fin"}}
KeysOf(evs) == {DedupKey(e) : e \in evs}

\* C7: once the context is done nothing that has been collected is dropped, by
\* any step up to Run's return, and Run returns no error and a result that
\* holds, up to deduplication, all of it.
C7_Step ==
  cancelled' =>
    /\ Collected \subseteq Collected'
    /\ (runPc # "done" /\ runPc' = "done") =>
          (~result'.err /\ KeysOf(Collected) \subseteq KeysOf(Items(result'.ev)))
C7_PartialResults == [][C7_Step]_vars

\* the context ended on the way: a query was given up without a provider
\* answer and without a cache entry, and Run has returned the evidence of the
\* others
C7_Witness ==
  /\ runPc = "done" /\ cancelled
  /\ ~result.err /\ result.ev # <<>>
  /\ \E p \in TaskIds :
       /\ queries[p].query \notin fetched
       /\ ~LruContains(lru, hashKey(queries[p].query))
       /\ ~db[hashKey(queries[p].query)].present

\* C8 as stated: a task in which something failed (cache lookup, rate limiter,
\* provider call) hands back no evidence.
C8_FailureYieldsNothing ==
  \A p \in TaskIds :
    (pc[p] = "fin" /\ (calls[p].lookupErr \/ calls[p].provider \in {"limited", "failed"}))
      => got[p] = <<>>

\* C8, amended: a task whose provider call or rate-limiter wait failed adds
\* nothing to the batch and touches nothing else (no sibling, not the Run, not
\* the context); a failed cache lookup costs nothing, the task gets what the
\* provider answers; every batch is merged and followed by the next tier; Run
\* returns, without error, the deduplicated evidence, with every task of every
\* tier finished, and the empty list when no provider call succeeded.
C8_Step ==
  /\ \A p \in TaskIds :
       (pc[p] = "fin" /\ pc'[p] = "done") =>
          /\ batchEv' = batchEv \o (IF calls[p].provider \in {"limited", "failed"}
                                      THEN <<>> ELSE got[p])
          /\ \A q \in TaskIds \ {p} : pc'[q] = pc[q]
          /\ cancelled' = cancelled /\ runPc' = runPc /\ allEv' = allEv
  /\ \A p \in TaskIds :
       (pc[p] = "search" /\ pc'[p] # "search" /\ calls'[p].provider = "ok") =>
          got'[p] = Provider(queries[p].query)
  /\ (runPc = "wait" /\ runPc' = "loop") =>
        (allEv' = allEv \o batchEv /\ tier' = tier + 1)
  /\ (runPc # "done" /\ runPc' = "done") =>
        result' = [ev |-> deduplicateEvidence(allEv), err |-> FALSE]
C8_AllRun ==
  runPc = "done" =>
    /\ \A p \in TaskIds : pc[p] = "done"
    /\ ~result.err
    /\ fetched = {} => result.ev = <<>>
C8_FailuresAbsorbed == [](C8_AllRun) /\ [][C8_Step]_vars

\* Run has returned evidence, and the cache holds the empty entry of a query
\* whose provider call failed
C8_Witness ==
  /\ runPc = "done" /\ ~result.err /\ result.ev # <<>>
  /\ \E k \in Keys : k \notin fetched /\ LruContains(lru, hashKey(k))

\* C9 as stated: the cache holds an entry for a key only after a provider call
\* for that key has succeeded.
C9_EntryOnlyAfterFetch ==
  \A k \in Keys :
    (LruContains(lru, hashKey(k)) \/ db[hashKey(k)].present) => k \in fetched

\* C11: with the persistent store failing on every operation, a fetched
\* answer still goes into the memory tier, a lookup of a key the memory tier
\* holds is a hit, a task whose lookup hit hands back the stored evidence
\* without a provider call, the failed write costs the task nothing, and Run
\* returns no error.
C11_Step ==
  dbDown =>
    /\ \A p \in TaskIds :
         /\ (pc[p] = "search" /\ pc'[p] # "search") =>
               /\ LruContains(lru', hashKey(key[p]))
               /\ LruPeek(lru', hashKey(key[p])).data = Marshal(got'[p])
         /\ (pc[p] = "getLRU" /\ pc'[p] # "getLRU" /\ LruContains(lru, hashKey(key[p]))) =>
               (res'[p].found /\ res'[p].entry = LruPeek(lru, hashKey(key[p])))
         /\ (pc[p] = "getRet" /\ pc'[p] # "getRet" /\ res[p].found) =>
               /\ pc'[p] = "fin"
               /\ got'[p] = Unmarshal(res[p].entry.data)
               /\ calls'[p].provider = "none"
         /\ (pc[p] = "setDB" /\ pc'[p] # "setDB") =>
               (pc'[p] = "fin" /\ got'[p] = got[p] /\ lru' = lru /\ db' = db)
    /\ (runPc # "done" /\ runPc' = "done") => ~result'.err
C11_MemoryOnly == [][C11_Step]_vars

\* the store is unreachable; a task is handed, from the memory tier and with
\* no provider call of its own, the evidence an earlier task fetched for its
\* query
C11_Witness ==
  /\ hasDb /\ dbDown
  /\ \E p \in TaskIds :
       /\ pc[p] = "fin" /\ calls[p].provider = "none"
       /\ got[p] = Provider(queries[p].query)
       /\ queries[p].query \in fetched
       /\ ~db[hashKey(key[p])].present

\* the pair deduplication is meant to go by
UrlTitle(e) == <<URL(e), Title(e)>>
\* the items of a list that are the first of their (url, title) pair
FirstOfPair(ev) ==
  {i \in 1..Len(ev) : \A j \in 1..(i - 1) : UrlTitle(ev[j]) # UrlTitle(ev[i])}

\* C12 as stated: the result holds no two items with equal url and equal
\* title, and it holds exactly the first-seen item of every (url, title) pair
\* of the merged list, in the merged order: items that differ in url or in
\* title are never merged.
C12_ExactDedup ==
  runPc = "done" =>
    /\ \A i, j \in 1..Len(result.ev) :
         i # j => UrlTitle(result.ev[i]) # UrlTitle(result.ev[j])
    /\ Len(result.ev) = Cardinality(FirstOfPair(allEv))
    /\ \A i \in FirstOfPair(allEv) : allEv[i] \in Items(result.ev)

\* C13: every query of the list is in exactly one of the tiers 1, 2, 3, its own
\* priority when that is in 1..3 and tier 3 otherwise; a query is dispatched
\* only from the batch of its tier, never a second time, and when Run returns
\* every query has been dispatched and its task has finished.
C13_Partition ==
  runPc # "ready" =>
    \A p \in TaskIds :
      LET groups == groupQueriesByPriority(queries)
          pr == queries[p].priority
      IN  /\ Cardinality({t \in DOMAIN groups : p \in groups[t]}) = 1
          /\ DOMAIN groups = 1..3
          /\ p \in groups[IF pr \in 1..3 THEN pr ELSE 3]
          /\ runPc = "done" => pc[p] = "done"
C13_DispatchStep ==
  \A p \in TaskIds :
    /\ (pc[p] = "idle" /\ pc'[p] # "idle") =>
          /\ pc'[p] = "sem" /\ runPc = "dispatch" /\ wg' = wg + 1
          /\ p \in groupQueriesByPriority(queries)[tier]
          /\ \A q \in TaskIds \ {p} : pc'[q] = pc[q]
    /\ pc[p] # "idle" => pc'[p] # "idle"
C13_EveryQueryOnce == [](C13_Partition) /\ [][C13_DispatchStep]_vars

\* Run has returned; a query with a priority above 3 was run in tier 3, after
\* a query of priority 2
C13_Witness ==
  /\ runPc = "done"
  /\ \E p, q \in TaskIds :
       /\ queries[p].priority > 3 /\ pc[p] = "done"
       /\ queries[q].priority = 2 /\ pc[q] = "done"
  /\ tier = 4

\* ---- the planner's claims
PlanReturned == call.fn = "Plan" /\ call.returned
KeyTermsOf(idea) ==
  extractKeyTerms(normalizeText(idea.Title), normalizeText(idea.OneLiner))

\* C14: Plan returns at most maxQueries queries: exactly the first
\* min(maxQueries, n) of the n candidates that survive the suppression of near
\* duplicates, in the order they were generated.
C14_FirstSurvivors ==
  PlanReturned =>
    LET survivors == deduplicateQueries(Candidates(call.arg.idea))
        n == Len(survivors)
        m == call.arg.maxQueries
        out == call.ret.queries
    IN  /\ Len(out) <= m
        /\ Len(out) = (IF m < n THEN m ELSE n)
        /\ \A i \in 1..Len(out) : out[i] = survivors[i]

\* a cut has taken place, and the list kept is not in priority order
C14_Witness ==
  /\ PlanReturned
  /\ Len(deduplicateQueries(Candidates(call.arg.idea))) > call.arg.maxQueries
  /\ \E i, j \in 1..Len(call.ret.queries) :
       i < j /\ call.ret.queries[i].Priority > call.ret.queries[j].Priority

\* the token set of a query, and the claim's measure on two of them
TokenSet(q) == LET n == normalizeQuery(q.Query) IN {n[i] : i \in 1..Len(n)}
TooSimilar(q1, q2) ==
  5 * Cardinality(TokenSet(q1) \cap TokenSet(q2))
    > 4 * Cardinality(TokenSet(q1) \cup TokenSet(q2))

\* the candidates the claim's rule accepts, as indices in generation order: a
\* candidate is rejected iff it is too similar to one accepted before it
RECURSIVE AcceptedFrom(_, _, _)
AcceptedFrom(cand, i, acc) ==
  IF i > Len(cand) THEN acc
  ELSE IF \E k \in 1..Len(acc) : TooSimilar(cand[i], cand[acc[k]])
         THEN AcceptedFrom(cand, i + 1, acc)
         ELSE AcceptedFrom(cand, i + 1, Append(acc, i))

\* C15: no two queries of Plan's result have a token-set Jaccard similarity
\* above 0.8, and the result lists, in order, the candidates that are not too
\* similar to a candidate accepted before them.
C15_NoNearDuplicates ==
  PlanReturned =>
    LET out == call.ret.queries
        cand == Candidates(call.arg.idea)
        acc == AcceptedFrom(cand, 1, <<>>)
    IN  /\ \A i, j \in 1..Len(out) : i < j => ~TooSimilar(out[i], out[j])
        /\ Len(out) <= Len(acc)
        /\ \A k \in 1..Len(out) : out[k] = cand[acc[k]]

\* a candidate has been rejected, ahead of the cut
C15_Witness ==
  /\ PlanReturned
  /\ LET cand == Candidates(call.arg.idea)
         acc == AcceptedFrom(cand, 1, <<>>)
     IN  \E i \in 1..Len(cand) :
           /\ i <= call.arg.maxQueries
           /\ \A k \in 1..Len(acc) : acc[k] # i
           /\ Len(call.ret.queries) > i

LoomIdea ==
  [Title |-> <<"Loom">>, OneLiner |-> <<"Agentic", "coding", "assistant">>]

\* C16: for the idea "Loom" / "Agentic coding assistant" under the default
\* limit of 20, Plan returns a non-empty list of at most 20 queries whose
\* intents span at least three distinct intents, no two of them more than 0.8
\* similar.
C16_LoomScenario ==
  (PlanReturned /\ call.arg.idea = LoomIdea /\ call.arg.maxQueries = MaxQueries)
    => LET out == call.ret.queries
       IN  /\ Len(out) > 0
           /\ Len(out) <= MaxQueries
           /\ Cardinality({out[i].Intent : i \in 1..Len(out)}) >= 3
           /\ \A i, j \in 1..Len(out) : i < j => ~TooSimilar(out[i], out[j])

\* C17: Plan never fails: with a limit of at least one it returns no error and
\* a non-empty list, and for an idea without key terms every query it returns
\* is built on the raw title.
C17_NeverFails ==
  (PlanReturned /\ call.arg.maxQueries >= 1) =>
    LET out == call.ret.queries
        idea == call.arg.idea
    IN  /\ call.ret.err = "nil"
        /\ Len(out) >= 1
        /\ KeyTermsOf(idea) = <<>> =>
             \A i \in 1..Len(out) :
               out[i].Query = <<Quote>> \o idea.Title \o <<Quote, "competitors">>

\* Plan has returned for an idea with some text and no key term
C17_Witness ==
  /\ PlanReturned
  /\ call.arg.maxQueries >= 1
  /\ call.arg.idea.Title # <<>>
  /\ call.arg.idea.OneLiner # <<>>
  /\ KeyTermsOf(call.arg.idea) = <<>>

\* ---- the normalizer's claims
\* C18: canonicalizeURL is idempotent on every URL it accepts, and its result
\* carries no tracking parameter and no leading "www." on the host.
C18_Idempotent ==
  (call.fn = "canonicalizeURL" /\ call.returned /\ call.ret # EmptyUrl) =>
    /\ canonicalizeURL(call.ret) = call.ret
    /\ \A i \in 1..Len(call.ret.Query) : call.ret.Query[i].k \notin trackingParams
    /\ ~(Len(call.ret.Host) >= 2 /\ call.ret.Host[1] = "www")

DedupReturned == call.fn = "deduplicateEvidence" /\ call.returned
SamePair(a, b) == a.URL = b.URL /\ a.Title = b.Title
\* a was published later than b; an item without a date is later than none
Later(a, b) ==
  /\ a.PublishedAt # <<>>
  /\ b.PublishedAt = <<>> \/ After(a.PublishedAt, b.PublishedAt)

\* C19: of the items with one (url, title), exact deduplication keeps one, and
\* none of the others was published later than it (an item without a date is
\* never kept over a dated one); no item handed back is older than another of
\* its pair, and no two share a pair.
C19_LatestSurvives ==
  DedupReturned =>
    LET evidence == call.arg
        unique == call.ret.unique
        filtered == call.ret.filtered
    IN  /\ Len(evidence) > 1 =>
             \A i \in 1..Len(evidence) :
               /\ Cardinality({k \in 1..Len(unique) :
                                 SamePair(unique[k], evidence[i])}) = 1
               /\ \A k \in 1..Len(unique) :
                    SamePair(unique[k], evidence[i])
                      => ~Later(evidence[i], unique[k])
        /\ Len(evidence) > 1 =>
             \A k, l \in 1..Len(filtered) :
               k # l => ~SamePair(filtered[k], filtered[l])
        /\ \A k \in 1..Len(filtered) : \A i \in 1..Len(evidence) :
             SamePair(filtered[k], evidence[i]) => ~Later(evidence[i], filtered[k])

\* the items a chain of matches links to the items of a set
RECURSIVE Cluster(_, _)
Cluster(items, all) ==
  LET more == {b \in all : \E a \in items : areContentSimilar(a, b)}
  IN  IF more \subseteq items THEN items ELSE Cluster(items \cup more, all)

\* C20: clustering is transitive within a pass: items linked by a chain of
\* matches end in one cluster with exactly one of them kept, whatever their
\* order, so no two of the items kept match each other.
C20_TransitiveClusters ==
  (DedupReturned /\ Len(call.arg) > 1) =>
    LET unique == call.ret.unique
        filtered == call.ret.filtered
        all == {unique[i] : i \in 1..Len(unique)}
    IN  /\ \A k, l \in 1..Len(filtered) :
             k # l => ~areContentSimilar(filtered[k], filtered[l])
        /\ \A a \in all :
             Cardinality({k \in 1..Len(filtered) :
                            filtered[k] \in Cluster({a}, all)}) = 1

NormalizeReturned == call.fn = "Normalize" /\ call.returned
\* the sum of an item's score components, in tenths
ComponentSum(ev) ==
  LET part == ScoreParts(ev)
  IN  part[1] + part[2] + part[3] + part[4] + part[5]

\* C21: every item Normalize hands back has score components that sum to more
\* than 0.3 (an item whose components sum to exactly 0.3, or less, is dropped),
\* and the items come in order of non-increasing score.
C21_AboveThreshold ==
  NormalizeReturned =>
    \A c \in 1..Len(call.ret) :
      LET out == call.ret[c]
      IN  /\ \A i \in 1..Len(out) : ComponentSum(out[i]) > 3
          /\ \A i \in 1..(Len(out) - 1) :
               ~FloatGreater(scoreEvidenceQuality(out[i + 1]),
                             scoreEvidenceQuality(out[i]))

\* the items of a raw list that C22 is about, normalized
LowQuality(evidence) ==
  {n \in {normalizeEvidence(evidence[i]) : i \in 1..Len(evidence)} \ {<<>>} :
     /\ n[1].SourceType = "unknown"
     /\ n[1].PublishedAt = <<>>
     /\ TextLen(n[1].Title) = 5
     /\ n[1].Snippet = <<>>}

FundingPair(evidence) ==
  /\ Len(evidence) = 2
  /\ \A i \in 1..2 :
       /\ normalizeEvidence(evidence[i]) # <<>>
       /\ extractDomain(normalizeEvidence(evidence[i])[1].URL) = TechCrunch
  /\ {cleanText(evidence[i].Title) : i \in 1..2} = {Funding, Funding \o <<"round">>}

C24_SameInputSameOutput ==
  NormalizeReturned =>
    \A c, d \in 1..Len(call.ret) : call.ret[c] = call.ret[d]

\* the fields of two items, of canonical URL, clean title and publication
\* time, in which they differ
FieldsChanged(a, b) ==
  {f \in {"URL", "Title", "PublishedAt"} : a[f] # b[f]}

\* C25: the id is a function of exactly the canonical URL, the clean title and
\* the publication time (or its absence): items equal in all three have the
\* same id, and items that differ in one of the three have different ids.
C25_IdOfTriple ==
  (call.fn = "normalizeEvidence") =>
    \A i, j \in 1..Len(call.ret) :
      (call.ret[i] # <<>> /\ call.ret[j] # <<>>) =>
        LET a == call.ret[i][1]
            b == call.ret[j][1]
        IN  /\ FieldsChanged(a, b) = {} => a.ID = b.ID
            /\ Cardinality(FieldsChanged(a, b)) = 1 => a.ID # b.ID

\* C26: once the deadline has elapsed or the context is cancelled, a task that
\* waits for a semaphore slot leaves without executing its query, and no task,
\* of the running tier or of a tier started later, begins executing a query.
C26_NoStartAfterDeadline ==
  [][cancelled => \A p \in TaskIds : ~(pc[p] = "sem" /\ pc'[p] = "sfDo")]_vars

\* C27: Run always returns: every task, whichever way it ends, signals wg.Done
\* and gives back the slot it holds, so that no barrier waits forever and no
\* slot stays taken, given that the cache and provider calls return.
C27_RunReturns ==
  /\ (runPc = "loop") ~> (runPc = "done")
  /\ [](runPc = "done" => (sem = 0 /\ wg = 0 /\ \A p \in TaskIds : pc[p] = "done"))
\* Run has returned after its deadline had elapsed
C27_Witness == runPc = "done" /\ cancelled

\* C28: a query task whose cache lookup hits hands back the cached evidence and
\* makes no provider call; a task whose lookup misses calls the provider, once,
\* and when the call succeeds its result goes into the cache under the key
\* that was looked up; a failed cache write leaves the evidence handed back as
\* it was.
C28_Step ==
  \A p \in TaskIds :
    /\ (pc[p] = "getRet" /\ pc'[p] # "getRet") =>
          IF res[p].found /\ ~res[p].err
            THEN /\ pc'[p] = "fin"
                 /\ got'[p] = Unmarshal(res[p].entry.data)
                 /\ calls[p].provider = "none" /\ calls'[p].provider = "none"
            ELSE pc'[p] = "limiter" /\ calls[p].provider = "none"
    /\ (pc[p] # "limiter" /\ pc'[p] = "limiter") => pc[p] = "getRet"
    /\ (pc[p] # "search" /\ pc'[p] = "search") =>
          (pc[p] = "limiter" /\ calls[p].provider = "none")
    /\ (pc[p] = "search" /\ pc'[p] # "search") =>
          /\ pc'[p] \in {"setDB", "fin"}
          /\ calls'[p].provider \in {"ok", "failed"}
          /\ key'[p] = createCacheKey(queries[p].query)
          /\ calls'[p].provider = "ok" =>
                /\ got'[p] = Provider(queries[p].query)
                /\ LruContains(lru', hashKey(key[p]))
                /\ LruPeek(lru', hashKey(key[p])).data = Marshal(got'[p])
                /\ hasDb => (pc'[p] = "setDB" /\ val'[p].data = Marshal(got'[p]))
    /\ (pc[p] = "setDB" /\ pc'[p] # "setDB") =>
          /\ pc'[p] = "fin" /\ got'[p] = got[p]
          /\ \/ db' = db
             \/ db' = [db EXCEPT ![hashKey(key[p])] = Row(val[p])]
    /\ (pc[p] = "fin" /\ pc'[p] = "done" /\ calls[p].provider \in {"none", "ok"}) =>
          batchEv' = batchEv \o got[p]
C28_HitOrFetch == [][C28_Step]_vars
\* one task holds the provider's answer, which the persistent tier did not
\* take, and another holds the same evidence from the cache without a
\* provider call
C28_Witness ==
  \E p, q \in TaskIds :
    /\ pc[p] = "fin" /\ calls[p].provider = "ok" /\ got[p] # <<>>
    /\ hasDb /\ ~db[hashKey(key[p])].present
    /\ pc[q] = "fin" /\ calls[q].provider = "none" /\ got[q] = got[p]

\* C29: a Get that finds the key absent or expired in the memory tier and
\* present and unexpired in the persistent tier returns that entry and puts it
\* into the memory tier, and a Get that finds the key unexpired in the memory
\* tier is answered without a persistent lookup; a Get that finds the
\* persistent record expired reports a miss and leaves the memory tier as it
\* is, and the record is deleted later, by a goroutine of its own: what that
\* goroutine deletes is an expired record.
C29_Step ==
  /\ \A p \in Procs :
       LET h == hashKey(key[p])
       IN  /\ (pc[p] = "getDBFin" /\ pc'[p] # "getDBFin") =>
                 IF row[p].present /\ ~isExpired(row[p].entry, now)
                   THEN /\ res'[p] = Hit(row[p].entry)
                        /\ LruContains(lru', h)
                        /\ LruPeek(lru', h) = row[p].entry
                   ELSE /\ res'[p] = Miss
                        /\ lru' = lru
                        /\ db' = db
                        /\ row[p].present => h \in pendingDel'
           /\ (pc[p] = "getLRU" /\ pc'[p] # "getLRU" /\ LruContains(lru, h)
                 /\ ~isExpired(LruPeek(lru, h), now)) =>
                 (pc'[p] = "sfFin" /\ res'[p] = Hit(LruPeek(lru, h)))
  /\ \A h \in pendingDel :
       (h \notin pendingDel' /\ db[h].present /\ ~db'[h].present) =>
          isExpired(db[h].entry, now)
C29_ReadThrough == [][C29_Step]_vars

\* C30: a sweep that the store carries out deletes every persistent entry
\* whose age exceeds the ttl stored with it and no entry whose age does not,
\* an entry just written by a concurrent Set included; a sweep that fails
\* deletes nothing.
C30_Step ==
  (call.fn = "StartCleanupWorker" /\ Len(call'.ret) > Len(call.ret)) =>
    \A h \in Hashes :
      IF call'.ret[Len(call'.ret)] /\ db[h].present
           /\ now - db[h].entry.createdAt > db[h].entry.ttl
        THEN ~db'[h].present
        ELSE db'[h] = db[h]
C30_SweepExact == [][C30_Step]_vars
\* a sweep has gone through after the rows of the earlier process had expired,
\* and the row that a Set still under way has written is there
C30_Witness ==
  /\ call.fn = "StartCleanupWorker"
  /\ call.ret # <<>> /\ call.ret[Len(call.ret)]
  /\ now > Ttl
  /\ \E h \in Hashes : ~db[h].present
  /\ \E p \in CallerIds :
       /\ pc[p] = "setRet" /\ ~res[p].err
       /\ db[hashKey(key[p])].present
       /\ db[hashKey(key[p])].entry.createdAt > 0

\* ---- the claims of the last sitting
\* the priority the spec gives to an intent
IntentPriority(intent) ==
  CASE intent \in {"competitors", "market", "problem"} -> 1
    [] intent \in {"funding", "regulation"} -> 2
    [] intent = "postmortems" -> 3
    [] OTHER -> 0
\* the query generateCompetitorQueries adds for the idea's title
TitleQuery(idea) == <<Quote>> \o idea.Title \o <<Quote, "competitors">>

\* C31 as stated: every query Plan returns carries the priority of its intent,
\* 1 for competitors, market and problem, 2 for funding and regulation, 3 for
\* postmortems.
C31_FixedPriority ==
  PlanReturned =>
    \A i \in 1..Len(call.ret.queries) :
      call.ret.queries[i].Priority = IntentPriority(call.ret.queries[i].Intent)

\* C31, amended: every query made from a template carries the priority of its
\* intent; the query for the quoted title is a competitors query of priority 2;
\* every priority is 1, 2 or 3.
C31_PriorityOfIntent ==
  PlanReturned =>
    \A i \in 1..Len(call.ret.queries) :
      LET q == call.ret.queries[i]
      IN  /\ q.Priority \in {1, 2, 3}
          /\ IF q.Query = TitleQuery(call.arg.idea)
               THEN q.Intent = "competitors" /\ q.Priority = 2
               ELSE q.Priority = IntentPriority(q.Intent)
\* Plan has returned the query for the title with priority 2, a competitors
\* query of priority 1 and a postmortems query
C31_Witness ==
  /\ PlanReturned
  /\ \E i, j, k \in 1..Len(call.ret.queries) :
       /\ call.ret.queries[i].Query = TitleQuery(call.arg.idea)
       /\ call.ret.queries[i].Priority = 2
       /\ call.ret.queries[j].Intent = "competitors"
       /\ call.ret.queries[j].Priority = 1
       /\ call.ret.queries[k].Intent = "postmortems"

\* the url or the title is missing, or the URL is not one of http or https
Malformed(ev) ==
  \/ ev.URL = EmptyUrl
  \/ ev.Title = <<>>
  \/ ev.URL.Scheme \notin {"http", "https"}
WellFormed(evidence) == SelectSeq(evidence, LAMBDA ev : ~Malformed(ev))

\* C32: normalization drops exactly the items whose url or title is missing or
\* whose URL is not an http or https one; what Normalize hands back is what it
\* hands back for the list without those items, and every item it hands back
\* has a url and a title that are not empty.
C32_MalformedDropped ==
  /\ call.fn = "normalizeEvidence" =>
       \A i \in 1..Len(call.ret) : (call.ret[i] = <<>>) <=> Malformed(call.arg[i])
  /\ NormalizeReturned =>
       \A c \in 1..Len(call.ret) :
         /\ \E unique \in MapOrders(urlTitleMapFrom(normalizedFrom(WellFormed(call.arg), 1), 1, {})) :
              call.ret[c] = Normalize(WellFormed(call.arg), unique)
         /\ \A i \in 1..Len(call.ret[c]) :
              /\ UrlString(call.ret[c][i].URL) # <<>>
              /\ call.ret[c][i].Title # <<>>

\* the source types with a weight in the table, and those the inference can
\* produce
ScoredTypes ==
  {"news", "database", "regulatory", "academic", "professional", "startup", "code",
   "blog", "forum", "social", "video", "website", "unknown"}
InferredTypes ==
  {"news", "database", "regulatory", "forum", "code", "blog", "professional",
   "social", "video", "startup", "product", "accelerator", "government",
   "academic", "website", "unknown"}

\* C33: no source type that a normalized item carries has a reputation weight
\* below that of "unknown", and none has a weight above those of news,
\* database and regulatory, which are the three highest of the table.
C33_UnknownLowest ==
  call.fn = "normalizeEvidence" =>
    \A i \in 1..Len(call.ret) :
      call.ret[i] # <<>> =>
        LET weight == sourceScores(call.ret[i][1].SourceType)
        IN  /\ call.ret[i][1].SourceType \in InferredTypes
            /\ weight >= sourceScores("unknown")
            /\ \A top \in {"news", "database", "regulatory"} :
                 \A t \in ScoredTypes \ {"news", "database", "regulatory"} :
                   sourceScores(top) > sourceScores(t)
            /\ weight <= sourceScores("news")

\* C34: no step of the cache, of the warm-up or of a Get that repopulates the
\* memory tier from the persistent tier, puts an older entry in the place of a
\* newer one in the memory tier; and a Get of k that follows a returned
\* Set(k, v) returns no entry older than v.
C34_Step ==
  \A h \in Hashes :
    (LruContains(lru, h) /\ LruContains(lru', h)) =>
       LruPeek(lru', h).createdAt >= LruPeek(lru, h).createdAt
C34_Get ==
  \A p \in Procs :
    (pc[p] = "getRet" /\ expect[p].known /\ expect[p].key = key[p] /\ res[p].found) =>
       res[p].entry.createdAt >= expect[p].at
C34_NoStaleOverwrite == [](C34_Get) /\ [][C34_Step]_vars

\* C35: the delete that a Get has started after reading an expired persistent
\* record removes no unexpired record: a fresh record that a concurrent Set
\* has stored for the fingerprint in the meantime stays.
C35_Step ==
  \A h \in pendingDel :
    (h \notin pendingDel' /\ db[h].present /\ ~isExpired(db[h].entry, now)) =>
       db'[h] = db[h]
C35_DeleteSparesFresh == [][C35_Step]_vars

\* C36: what a Get caller receives depends on the cache and on its own context
\* only: no lookup is failed by the cancellation of the context it runs under
\* (the store being reachable) while a caller whose own context is live waits
\* for its result, which singleflight hands to every caller that joined.
C36_Step ==
  \A p \in CallerIds :
    (pc[p] = "getDB" /\ pc'[p] = "sfFin" /\ res'[p] = Fail /\ p \in doneCtx /\ ~dbDown)
      => \A q \in CallerIds \ {p} :
           (pc[q] = "sfWait" /\ key[q] = key[p]) => q \in doneCtx
C36_OwnContextOnly == [][C36_Step]_vars

\* C37: a cache built without a persistent store serves every operation (Get,
\* Set, the warm-up, the cleanup sweep and its worker) from the memory tier
\* alone: no operation fails and none brings the process down.
C37_MemoryOnly ==
  ~hasDb =>
    /\ ~panicked
    /\ \A p \in CallerIds : ~res[p].err
    /\ \A h \in Hashes : ~db[h].present

\* C38: when raw results of a Run share one (url, title) and differ in their
\* publication dates, the evidence list that Normalize makes of the Run's
\* result holds, for that pair, no item published before another of them,
\* whatever the order in which the tasks returned.
C38_LatestRepresented ==
  (call.fn = "AnalyzeIdea" /\ call.returned) =>
    \A i, j \in 1..Len(call.arg) :
      LET a == call.arg[i]
          b == call.arg[j]
          n == normalizeEvidence(a)
      IN  (a.URL = b.URL /\ a.Title = b.Title /\ Later(a, b) /\ n # <<>>) =>
            \A k \in 1..Len(call.ret) :
              (call.ret[k].URL = n[1].URL /\ call.ret[k].Title = n[1].Title)
                => ~Later(a, call.ret[k])

\* C39: in AnalyzeAll the six analyzers run side by side; the failure of one
\* neither cancels the others nor discards what they stored; the verdict
\* analyzer starts only when all six have finished; AnalyzeAll returns no
\* error; and the analysis returned is Partial exactly when one of the six
\* analyzers or the verdict analyzer (its enhancement by the model) has failed.
C39_FailureStep ==
  \A a \in AnalyzerNames :
    (analyzer[a] = "running" /\ analyzer'[a] = "done" /\ a \in coord'.analysisErrors)
      => /\ \A b \in AnalyzerNames \ {a} : analyzer'[b] = analyzer[b]
         /\ coord'.results = coord.results
         /\ coord'.groupCtxDone = coord.groupCtxDone
C39_VerdictLast ==
  coord.pc \in {"verdict", "returned"} => \A a \in AnalyzerNames : analyzer[a] = "done"
C39_Returned ==
  coord.pc = "returned" =>
    /\ ~coord.err
    /\ coord.results = AnalyzerNames \ coord.analysisErrors
    /\ coord.partial <=> (coord.analysisErrors # {} \/ coord.verdict # "enhanced")
C39_PartialIffFailure ==
  [](C39_VerdictLast /\ C39_Returned) /\ [][C39_FailureStep]_vars

\* C40: when the deadline has fired by the time the analyzers are through,
\* AnalyzeIdea stores the analysis, marked Partial, and returns its id, not
\* an error.
C40_PartialPersisted ==
  (orch.pc = "returned" /\ orch.marked) => (orch.saved /\ orch.partial /\ ~orch.err)

=============================================================================
